---- MODULE Spec2Model ----
(***************************************************************************)
(* EvoLenia v2: the simulation state / pipeline engine.                    *)
(*                                                                         *)
(* Spec         the three drivers of the step pipeline (app.rs redraw,     *)
(*              headless.rs run_headless, main.rs RedrawRequested) over    *)
(*              the WorldState of world.rs and the bind groups of          *)
(*              pipeline.rs                                                *)
(* SpecCodec    the snapshot codec of state_io.rs on byte sequences        *)
(* SpecReadback WorldState::readback_snapshot, one staging buffer at a     *)
(*              time                                                       *)
(***************************************************************************)
EXTENDS Integers, Sequences, FiniteSets, TLC

\* ------------------------------------------------------------------ bounds
\* the grid, scaled down from 512 x 512 (world.rs:17-18)
WORLD_WIDTH == 4
WORLD_HEIGHT == 3
\* steps a world is driven for before the model stops starting new ones
MaxFrame == 4
\* simulation_speed ranges over 1..MaxSpeed (1..20 in the program)
MaxSpeed == 2
\* metrics_sample_interval ranges over 1..MaxInterval (10..5000 in the program)
MaxInterval == 2
\* longest array of a snapshot handed to the codec
MaxLen == 2
\* pixel_idx is tried on the coordinates -MaxCoord..MaxCoord
MaxCoord == 5
\* states of the random number generator
RngMod == 64
\* instances the world generator places of each pattern (30, 8, 6, 4, 10, 5
\* in the program) and of each resource feature (12, 6)
PatternCount == 1
\* worlds built by restarts after the first one
MaxRestarts == 2
\* cells of a snapshot handed to the diagnostics (WORLD_WIDTH * WORLD_HEIGHT
\* in the program)
MaxCells == 3
\* detect_species is tried with max_species in 0..MaxSpecies
MaxSpecies == 2
\* perturbation requests raised in one run of the GUI
MaxPerturbations == 2
\* threads of a workgroup along x and y (16 and 16 in the program)
WORKGROUP_X == 2
WORKGROUP_Y == 1

VARIABLES
    driver,                 \* which entry point runs: "gui", "headless", "legacy"
    pc,                     \* position of the control thread in that driver
    result,                 \* "running", or the value the driver returned
    \* ---- WorldState (world.rs:90-125)
    current,                \* ping-pong index
    frame,                  \* step counter
    world_source,           \* "fresh" or "snapshot": what generation 0 holds
    \* ---- device
    gen,                    \* gen[f][i]: generation held by physical buffer i of field f
    mass_sum,               \* reductions accumulated in MassSum since it was last zero
    mass_sum_write,         \* a host write zeroing MassSum is staged on the queue
    uniform_frame,          \* frame index last uploaded to the uniform buffers
    enc,                    \* passes recorded on the open command encoder
    \* ---- history of this world
    submitted,              \* step command buffers submitted to the queue
    last_step,              \* the most recently submitted step
    cur_hist,               \* cur() at construction and after each swap()
    last_readback,          \* the most recent readback_snapshot call
    last_render,            \* the most recent render pass
    \* ---- SimulationParams / LabState / AppState (config.rs, lab.rs, app.rs)
    paused,
    simulation_speed,
    mass_normalization_enabled,
    restart_requested,
    step_requested,
    snapshot_requested,
    metrics_sample_interval,
    diag_interval,
    last_diag,
    steps_left,             \* iterations the running step loop still has to do
    perturbation_active,    \* config.rs:48, "fire once (auto-clears)"
    perturbations,          \* the perturbations applied, and where the last one fell
    \* ---- AppState (app.rs)
    world_id,               \* which WorldState state.world is; a restart changes it
    pipelines_world,        \* the WorldState whose buffers state.pipelines binds
    \* ---- HeadlessConfig / AppConfig
    frames,
    load_state_path,
    save_state_path,
    \* ---- snapshot codec
    snap,                   \* the BufferSnapshot given to save_snapshot
    file,                   \* the bytes of the snapshot file
    faults,                 \* what was done to the file after it was saved
    build_checks,           \* the build panics on integer overflow (debug profile)
    loaded,                 \* what load_snapshot returned for file
    \* ---- readback_snapshot
    rb_outcome,             \* what mapping each of the five staging buffers yields
    rb_result,              \* what readback_snapshot returned
    \* ---- pixel_idx
    px, py,                 \* the coordinates pixel_idx is called with
    idx,                    \* what it returned for (px, py), (px + W, py), (px, py + H)
    \* ---- SimulationParams (config.rs:58-60)
    seed,
    use_fixed_seed,
    fixed_seed_value,
    \* ---- the locals of WorldState::new (world.rs:129-139)
    rng,
    mass_data,
    energy_data,
    genome_a_data,
    genome_b_data,
    resource_data,
    left,                   \* instances of the current pattern still to place
    stamps,                 \* the stamp calls of the pattern instance placed last
    nests,                  \* the cells the predator nests placed so far cover
    \* ---- the buffers of the constructed WorldState (world.rs:429-452)
    buffers,
    \* ---- history of the worlds built
    world_seed,             \* the seed the world under construction was given
    first_world,            \* per seed, the first world built from it and
                            \* how many were built from it
    restarts,               \* worlds built by a restart
    \* ---- diagnostics (metrics.rs)
    diag_snap,              \* the BufferSnapshot the metrics are computed from
    species,                \* what detect_species returned, and for which maximum
    entropy,                \* what compute_genetic_entropy returned
    diag                    \* the SimDiagnostics built by from_snapshot

world_vars == <<current, frame, world_source, gen, mass_sum, mass_sum_write,
                uniform_frame, enc, submitted, last_step, cur_hist,
                last_readback, last_render>>
ui_vars == <<paused, simulation_speed, mass_normalization_enabled,
             restart_requested, step_requested,
             snapshot_requested, metrics_sample_interval, diag_interval,
             last_diag, steps_left>>
cfg_vars == <<frames, load_state_path, save_state_path>>
redraw_vars == <<perturbation_active, perturbations, world_id, pipelines_world>>
driver_vars == <<driver, pc, result, world_vars, ui_vars, cfg_vars, redraw_vars>>
codec_vars == <<snap, file, faults, build_checks, loaded>>
readback_vars == <<rb_outcome, rb_result>>
pixel_vars == <<px, py, idx>>
seed_vars == <<seed, use_fixed_seed, fixed_seed_value>>
new_locals == <<rng, mass_data, energy_data, genome_a_data, genome_b_data,
                resource_data, left, stamps, nests>>
worldgen_vars == <<seed_vars, new_locals, buffers, world_seed, first_world,
                   restarts>>
metrics_vars == <<diag_snap, species, entropy, diag>>
other_vars == <<pixel_vars, worldgen_vars, metrics_vars>>
vars == <<driver_vars, codec_vars, readback_vars, other_vars>>

\* ------------------------------------------------------------- WorldState
total_pixels == WORLD_WIDTH * WORLD_HEIGHT

Fields == {"mass", "energy", "genome_a", "genome_b"}

\* world.rs:594-596
cur(c) == c

\* world.rs:600-602
next(c) == 1 - c

\* swap() that counts the step and forgets to flip the index
swap_noflip(c, f) == [current |-> c, frame |-> f + 1]

\* world.rs:588-591, the new value of (current, frame)
swap(c, f) == [current |-> 1 - c, frame |-> f + 1]

\* world.rs:429-449, what WorldState::new puts in the ping-pong pairs:
\* generation 0 in buffer 0, zeros (no generation, -1) in buffer 1
NewGen == [f \in Fields |-> [i \in {0, 1} |-> IF i = 0 THEN 0 ELSE -1]]

\* ---------------------------------------------------------------- pipeline
\* pipeline.rs:63-84
velocity_bind_groups ==
    [i \in {0, 1} |-> [read |-> [mass |-> i, genome_a |-> i]]]

\* an evolution pass that writes the buffers it reads
evolution_bind_groups_in_place ==
    [i \in {0, 1} |->
        [read  |-> [mass |-> i, energy |-> i, genome_a |-> i, genome_b |-> i],
         write |-> [mass |-> i, energy |-> i, genome_a |-> i, genome_b |-> i]]]

\* pipeline.rs:108-145
evolution_bind_groups ==
    [i \in {0, 1} |->
        [read  |-> [mass |-> i, energy |-> i, genome_a |-> i, genome_b |-> i],
         write |-> [mass |-> 1 - i, energy |-> 1 - i,
                    genome_a |-> 1 - i, genome_b |-> 1 - i]]]

\* a resource pass bound to the Mass buffer the evolution pass read
resources_bind_groups_cur ==
    [i \in {0, 1} |-> [read |-> [mass |-> i]]]

\* pipeline.rs:163-182
resources_bind_groups ==
    [i \in {0, 1} |-> [read |-> [mass |-> 1 - i]]]

\* pipeline.rs:221-240, the one Mass buffer sum_mass reads and normalize rewrites
normalize_bind_groups ==
    [i \in {0, 1} |-> [mass |-> 1 - i]]

\* render bind groups that bind the buffers of their own index
render_bind_groups_same_index ==
    [i \in {0, 1} |-> [read |-> [mass |-> i, energy |-> i, genome_a |-> i]]]

\* pipeline.rs:299-322
render_bind_groups ==
    [i \in {0, 1} |-> [read |-> [mass |-> 1 - i, energy |-> 1 - i,
                                 genome_a |-> 1 - i]]]

Dispatch(p, groups, i, wg) ==
    [pass |-> p, bg |-> i, bind |-> groups[i], workgroups |-> wg]

\* app.rs:532-534, and the same three lines at headless.rs:69-71 and
\* main.rs:592-595
dispatch_x == (WORLD_WIDTH + WORKGROUP_X - 1) \div WORKGROUP_X
dispatch_y == (WORLD_HEIGHT + WORKGROUP_Y - 1) \div WORKGROUP_Y
dispatch_linear == (total_pixels + 255) \div 256

\* pipeline.rs:35-40: the bind groups are created over the buffers of the
\* world handed in, and stay bound to them
create_pipelines(w) == w

\* the recorded passes ps, with the world their bind groups are bound to
BoundTo(ps, w) ==
    [i \in DOMAIN ps |-> [pass |-> ps[i].pass, bg |-> ps[i].bg,
                          bind |-> ps[i].bind,
                          workgroups |-> ps[i].workgroups, world |-> w]]

\* the resource pass recorded ahead of the evolution pass
encode_resources_first(c) ==
    << Dispatch("velocity", velocity_bind_groups, c,
                <<dispatch_x, dispatch_y, 1>>),
       Dispatch("resources", resources_bind_groups, c,
                <<dispatch_x, dispatch_y, 1>>),
       Dispatch("evolution", evolution_bind_groups, c,
                <<dispatch_x, dispatch_y, 1>>),
       Dispatch("sum_mass", normalize_bind_groups, c,
                <<dispatch_linear, 1, 1>>),
       Dispatch("normalize", normalize_bind_groups, c,
                <<dispatch_linear, 1, 1>>) >>

\* app.rs:870-932
encode_simulation_passes(c) ==
    << Dispatch("velocity", velocity_bind_groups, c,
                <<dispatch_x, dispatch_y, 1>>),
       Dispatch("evolution", evolution_bind_groups, c,
                <<dispatch_x, dispatch_y, 1>>),
       Dispatch("resources", resources_bind_groups, c,
                <<dispatch_x, dispatch_y, 1>>),
       Dispatch("sum_mass", normalize_bind_groups, c,
                <<dispatch_linear, 1, 1>>),
       Dispatch("normalize", normalize_bind_groups, c,
                <<dispatch_linear, 1, 1>>) >>

\* the headless encoder with the two-dimensional passes dispatched over the
\* linear count
headless_encode_linear_dispatch(c) ==
    << Dispatch("velocity", velocity_bind_groups, c,
                <<dispatch_linear, 1, 1>>),
       Dispatch("evolution", evolution_bind_groups, c,
                <<dispatch_linear, 1, 1>>),
       Dispatch("resources", resources_bind_groups, c,
                <<dispatch_linear, 1, 1>>),
       Dispatch("sum_mass", normalize_bind_groups, c,
                <<dispatch_linear, 1, 1>>),
       Dispatch("normalize", normalize_bind_groups, c,
                <<dispatch_linear, 1, 1>>) >>

\* headless.rs:145-202
headless_encode_simulation_passes(c) ==
    << Dispatch("velocity", velocity_bind_groups, c,
                <<dispatch_x, dispatch_y, 1>>),
       Dispatch("evolution", evolution_bind_groups, c,
                <<dispatch_x, dispatch_y, 1>>),
       Dispatch("resources", resources_bind_groups, c,
                <<dispatch_x, dispatch_y, 1>>),
       Dispatch("sum_mass", normalize_bind_groups, c,
                <<dispatch_linear, 1, 1>>),
       Dispatch("normalize", normalize_bind_groups, c,
                <<dispatch_linear, 1, 1>>) >>

\* main.rs:597-655, the compute passes of the legacy frame encoder
legacy_encode_compute_passes(c) ==
    << Dispatch("velocity", velocity_bind_groups, c,
                <<dispatch_x, dispatch_y, 1>>),
       Dispatch("evolution", evolution_bind_groups, c,
                <<dispatch_x, dispatch_y, 1>>),
       Dispatch("resources", resources_bind_groups, c,
                <<dispatch_x, dispatch_y, 1>>),
       Dispatch("sum_mass", normalize_bind_groups, c,
                <<dispatch_linear, 1, 1>>),
       Dispatch("normalize", normalize_bind_groups, c,
                <<dispatch_linear, 1, 1>>) >>

\* main.rs:675-699, the render pass the legacy encoder appends; it draws and
\* dispatches no workgroup
legacy_encode_render_pass(c) ==
    << Dispatch("render", render_bind_groups, c, << >>) >>

\* ------------------------------------------------------------------ device
\* What one pass does to the device when its command buffer executes.
\* The evolution kernel produces the generation after the one it reads; the
\* reduction adds the Mass buffer's total to MassSum.
ExecPass(d, p) ==
    CASE p.pass = "evolution" ->
           [d EXCEPT !.gen = [f \in Fields |->
               [d.gen[f] EXCEPT ![p.bind.write[f]] = d.gen[f][p.bind.read[f]] + 1]]]
      [] p.pass = "sum_mass" ->
           [d EXCEPT !.sum_start = d.mass_sum, !.mass_sum = d.mass_sum + 1]
      [] OTHER -> d

RECURSIVE ExecPasses(_, _)
ExecPasses(d, ps) ==
    IF ps = << >> THEN d ELSE ExecPasses(ExecPass(d, Head(ps)), Tail(ps))

\* queue.submit: the staged host writes land first, then the passes run in
\* the order they were recorded
QueueSubmit(ps) ==
    ExecPasses([gen |-> gen,
                mass_sum |-> IF mass_sum_write THEN 0 ELSE mass_sum,
                sum_start |-> -1], ps)

PassNames(ps) == [i \in DOMAIN ps |-> ps[i].pass]

ComputePasses(ps) == SelectSeq(ps, LAMBDA p : p.pass # "render")

FivePasses == <<"velocity", "evolution", "resources", "sum_mass", "normalize">>

NoStep == [passes |-> << >>, cur |-> -1, sum_start |-> -1, zeroed |-> FALSE,
           norm_enabled |-> TRUE, uniform_frame |-> -1]

NoReadback == [kind |-> "none", copies |-> << >>, cur |-> -1, frame |-> -1,
               submitted |-> -1, gens |-> << >>, some |-> FALSE]

NoRender == [bg |-> -1, cur |-> -1, read |-> << >>, world |-> -1]

\* ------------------------------------------------------------ snapshot codec
\* An f32 is its 32 bits: sign (1), exponent (8), mantissa (23).  A byte is
\* 0..255.  A u64 read from a file stays its eight little-endian bytes, as
\* the value may not fit a model integer.
F32(s, e, m) == [sign |-> s, exp |-> e, mant |-> m]

\* 0.0, 1.0, -0.0, a NaN with a payload, the smallest subnormal, -inf
F32Samples == << F32(0, 0, 0), F32(0, 127, 0), F32(1, 0, 0),
                 F32(0, 255, 4194305), F32(0, 0, 1), F32(1, 255, 0) >>

\* f32::to_le_bytes (state_io.rs:67)
f32_to_le_bytes(v) ==
    << v.mant % 256,
       (v.mant \div 256) % 256,
       (v.exp % 2) * 128 + (v.mant \div 65536),
       v.sign * 128 + (v.exp \div 2) >>

\* a decoder that goes through a float conversion and quiets every NaN
f32_from_le_bytes_quiet(b) ==
    LET e == (b[4] % 128) * 2 + (b[3] \div 128)
        m == (b[3] % 128) * 65536 + b[2] * 256 + b[1]
    IN  [sign |-> b[4] \div 128, exp |-> e,
         mant |-> IF e = 255 /\ m # 0 THEN 4194304 ELSE m]

\* f32::from_le_bytes (state_io.rs:80)
f32_from_le_bytes(b) ==
    F32(b[4] \div 128,
        (b[4] % 128) * 2 + (b[3] \div 128),
        (b[3] % 128) * 65536 + b[2] * 256 + b[1])

RECURSIVE to_le_bytes(_, _)
\* uN::to_le_bytes for an N = 8k bit integer (state_io.rs:16,17,65)
to_le_bytes(n, k) ==
    IF k = 0 THEN << >> ELSE <<n % 256>> \o to_le_bytes(n \div 256, k - 1)

\* u32::from_le_bytes (state_io.rs:88), for values below 2^31
u32_from_le_bytes(b) == b[1] + 256 * b[2] + 65536 * b[3] + 16777216 * b[4]

\* state_io.rs:11, b"EVOSNP01"
MAGIC == <<69, 86, 79, 83, 78, 80, 48, 49>>

\* state_io.rs:66-68, the loop over the values
RECURSIVE write_values(_)
write_values(xs) ==
    IF xs = << >> THEN << >>
    ELSE f32_to_le_bytes(Head(xs)) \o write_values(Tail(xs))

\* the element count written as a u32
write_vec_f32_u32len(values) ==
    to_le_bytes(Len(values), 4) \o write_values(values)

\* state_io.rs:63-70
write_vec_f32(values) ==
    to_le_bytes(Len(values), 8) \o write_values(values)

\* state_io.rs:13-25, the bytes written to the file
save_snapshot(s) ==
    MAGIC
    \o to_le_bytes(WORLD_WIDTH, 4)
    \o to_le_bytes(WORLD_HEIGHT, 4)
    \o write_vec_f32(s.mass)
    \o write_vec_f32(s.energy)
    \o write_vec_f32(s.genome_a)
    \o write_vec_f32(s.genome_b)
    \o write_vec_f32(s.resource)

\* Read::read_exact on a file of bytes b positioned after pos bytes
read_exact(b, pos, n) ==
    IF pos + n <= Len(b)
    THEN [ok |-> TRUE, bytes |-> SubSeq(b, pos + 1, pos + n), pos |-> pos + n]
    ELSE [ok |-> FALSE, bytes |-> << >>, pos |-> pos]

\* len * 4 on a u64 held as bytes: the low 64 bits and whether bits were lost
RECURSIVE Mul4Bytes(_, _)
Mul4Bytes(b, carry) ==
    IF b = << >> THEN [bytes |-> << >>, carry |-> carry]
    ELSE LET v == Head(b) * 4 + carry
             r == Mul4Bytes(Tail(b), v \div 256)
         IN  [bytes |-> <<v % 256>> \o r.bytes, carry |-> r.carry]

\* a u64 held as bytes is below 2^24
IsSmall64(b) == \A i \in 4..8 : b[i] = 0

Small64(b) == b[1] + 256 * b[2] + 65536 * b[3]

RECURSIVE DecodeF32s(_)
\* state_io.rs:78-81, bytes.chunks_exact(4)
DecodeF32s(b) ==
    IF Len(b) < 4 THEN << >>
    ELSE <<f32_from_le_bytes(SubSeq(b, 1, 4))>> \o DecodeF32s(SubSeq(b, 5, Len(b)))

\* state_io.rs:72-83.  overflow_checks is the build's setting for `len * 4`.
\* status "Err" is the io::Error of read_exact, "Panic" a panic of the
\* multiplication or of an allocation above isize::MAX bytes.
read_vec_f32(b, pos, overflow_checks) ==
    LET lb == read_exact(b, pos, 8)
        none == [status |-> "Err", values |-> << >>, pos |-> pos]
        panic == [status |-> "Panic", values |-> << >>, pos |-> pos]
    IN  IF ~lb.ok THEN none
        ELSE LET len == lb.bytes
                 prod == Mul4Bytes(len, 0)
             IN  IF prod.carry # 0 /\ overflow_checks THEN panic
                 ELSE IF prod.bytes[8] >= 128 THEN panic   \* vec![0u8; n], n > isize::MAX
                 ELSE IF ~IsSmall64(prod.bytes) THEN none  \* read_exact meets the end of the file
                 ELSE LET data == read_exact(b, lb.pos, Small64(prod.bytes))
                      IN  IF ~data.ok THEN none
                          ELSE IF prod.carry # 0 THEN panic \* Vec::with_capacity(len)
                          ELSE [status |-> "Ok", values |-> DecodeF32s(data.bytes),
                                pos |-> data.pos]

EmptySnapshot == [mass |-> << >>, energy |-> << >>, genome_a |-> << >>,
                  genome_b |-> << >>, resource |-> << >>]

LoadErr(e) == [status |-> "Err", err |-> e, snapshot |-> EmptySnapshot]
LoadPanic == [status |-> "Panic", err |-> "panic", snapshot |-> EmptySnapshot]

\* the `?` after read_vec_f32: the failure handed up
Failed(r) ==
    IF r.status = "Panic" THEN LoadPanic ELSE LoadErr("UnexpectedEof")

\* state_io.rs:27-61
load_snapshot(b, overflow_checks) ==
    LET magic == read_exact(b, 0, 8) IN
    IF ~magic.ok THEN LoadErr("UnexpectedEof")
    ELSE IF magic.bytes # MAGIC THEN LoadErr("invalid snapshot magic")
    ELSE
    LET width == read_exact(b, magic.pos, 4) IN
    IF ~width.ok THEN LoadErr("UnexpectedEof")
    ELSE
    LET height == read_exact(b, width.pos, 4) IN
    IF ~height.ok THEN LoadErr("UnexpectedEof")
    ELSE IF u32_from_le_bytes(width.bytes) # WORLD_WIDTH
            \/ u32_from_le_bytes(height.bytes) # WORLD_HEIGHT
         THEN LoadErr("snapshot dimensions incompatible")
    ELSE
    LET R(p) == read_vec_f32(b, p, overflow_checks) IN
    LET mass == R(height.pos) IN
    IF mass.status # "Ok" THEN Failed(mass) ELSE
    LET energy == R(mass.pos) IN
    IF energy.status # "Ok" THEN Failed(energy) ELSE
    LET genome_a == R(energy.pos) IN
    IF genome_a.status # "Ok" THEN Failed(genome_a) ELSE
    LET genome_b == R(genome_a.pos) IN
    IF genome_b.status # "Ok" THEN Failed(genome_b) ELSE
    LET resource == R(genome_b.pos) IN
    IF resource.status # "Ok" THEN Failed(resource) ELSE
        [status |-> "Ok", err |-> "none",
         snapshot |-> [mass |-> mass.values, energy |-> energy.values,
                       genome_a |-> genome_a.values,
                       genome_b |-> genome_b.values,
                       resource |-> resource.values]]

\* ---------------------------------------------------------------- readback
\* world.rs:680-684, the staging buffers in the order they are mapped
StagingOrder == <<"mass", "energy", "genome_a", "genome_b", "resource">>

\* world.rs:531-562, floats each staging buffer holds
staging_floats(f) == IF f = "genome_a" THEN total_pixels * 4 ELSE total_pixels

\* world.rs:680-684, the count each read_staging call is given
staging_count(f) == IF f = "genome_a" THEN total_pixels * 4 ELSE total_pixels

\* what map_async and the channel can deliver for one buffer
MapOutcomes == {"ok", "map_err", "recv_err"}

\* world.rs:665-678; TRUE is Some(floats)
read_staging(f, outcome) ==
    IF outcome # "ok" THEN FALSE                  \* rx.recv().ok()?.ok()?
    ELSE staging_floats(f) >= staging_count(f)

\* the copies taken from the buffers the next step will write
readback_copies_next(c) ==
    [mass |-> 1 - c, energy |-> 1 - c, genome_a |-> 1 - c, genome_b |-> 1 - c]

\* world.rs:657-661, the physical buffer each copy reads
readback_copies(c) ==
    [mass |-> c, energy |-> c, genome_a |-> c, genome_b |-> c]

RECURSIVE ReadFrom_skip(_, _, _)
\* a failed mapping treated as an empty field instead of ending the call
ReadFrom_skip(outcomes, i, got) ==
    IF i > Len(StagingOrder) THEN [some |-> TRUE, fields |-> got]
    ELSE IF read_staging(StagingOrder[i], outcomes[i])
         THEN ReadFrom_skip(outcomes, i + 1, got \cup {StagingOrder[i]})
         ELSE ReadFrom_skip(outcomes, i + 1, got)

RECURSIVE ReadFrom(_, _, _)
\* world.rs:680-686, the five `?` in a row and the final Some(..)
ReadFrom(outcomes, i, got) ==
    IF i > Len(StagingOrder) THEN [some |-> TRUE, fields |-> got]
    ELSE IF read_staging(StagingOrder[i], outcomes[i])
         THEN ReadFrom(outcomes, i + 1, got \cup {StagingOrder[i]})
         ELSE [some |-> FALSE, fields |-> {}]

\* world.rs:644-687
readback_snapshot(c, outcomes) ==
    [copies |-> readback_copies(c)] @@ ReadFrom(outcomes, 1, {})

\* ------------------------------------------------------- uniforms, worlds
\* world.rs:605-640: uploads the frame index and stages the write that
\* zeroes both MassSum words
update_uniforms(f) == [uniform_frame |-> f, mass_sum_write |-> TRUE]

\* an upload that keeps the frame index of the world's construction
update_step_uniforms_frame0(f) == [uniform_frame |-> 0, mass_sum_write |-> TRUE]

\* WorldState::update_step_uniforms (headless.rs:85 calls it)
update_step_uniforms(f) == [uniform_frame |-> f, mass_sum_write |-> TRUE]

\* WorldState::update_step_uniforms_dynamic (app.rs:542, 565 call it)
update_step_uniforms_dynamic(f) == [uniform_frame |-> f, mass_sum_write |-> TRUE]

\* WorldState::apply_snapshot (app.rs:122, headless.rs:62 call it): refuses a
\* snapshot whose arrays do not have the live grid's lengths
apply_snapshot(s) ==
    /\ Len(s.mass) = total_pixels
    /\ Len(s.energy) = total_pixels
    /\ Len(s.genome_a) = total_pixels * 4
    /\ Len(s.genome_b) = total_pixels
    /\ Len(s.resource) = total_pixels

\* a host-side snapshot of a w x h world
WorldSnapshot(w, h) ==
    [mass     |-> [i \in 1..(w * h) |-> F32Samples[2]],
     energy   |-> [i \in 1..(w * h) |-> F32Samples[2]],
     genome_a |-> [i \in 1..(4 * w * h) |-> F32Samples[2]],
     genome_b |-> [i \in 1..(w * h) |-> F32Samples[1]],
     resource |-> [i \in 1..(w * h) |-> F32Samples[2]]]

\* the file with the header's dimensions replaced: what a build for a
\* w x h grid writes at state_io.rs:16-17
SetDims(b, w, h) ==
    SubSeq(b, 1, 8) \o to_le_bytes(w, 4) \o to_le_bytes(h, 4)
    \o SubSeq(b, 17, Len(b))

PathKinds == {"none", "valid", "dim_mismatch", "bad_magic", "truncated",
              "short_arrays"}

\* the snapshot files a run can be pointed at
FileAt(path) ==
    LET valid == save_snapshot(WorldSnapshot(WORLD_WIDTH, WORLD_HEIGHT)) IN
    CASE path = "valid" -> valid
      [] path = "dim_mismatch" ->
            SetDims(save_snapshot(WorldSnapshot(WORLD_WIDTH + 1, WORLD_HEIGHT)),
                    WORLD_WIDTH + 1, WORLD_HEIGHT)
      [] path = "bad_magic" -> <<69, 86, 79, 83, 78, 80, 48, 48>> \o SubSeq(valid, 9, Len(valid))
      [] path = "truncated" -> SubSeq(valid, 1, Len(valid) - 3)
      [] path = "short_arrays" -> save_snapshot(EmptySnapshot)
      [] OTHER -> << >>

\* the program is built without overflow checks unless stated otherwise
LoadAt(path) == load_snapshot(FileAt(path), FALSE)

\* world.rs:564-584 with 429-463: the fields of a WorldState just built
WorldState_new ==
    [current |-> 0, frame |-> 0, gen |-> NewGen, mass_sum |-> 0]

\* WorldState::new_with_seed (app.rs:481 calls it)
new_with_seed == WorldState_new

\* the model's variables for a world just built from w
InstallWorld(w, source) ==
    /\ current' = w.current
    /\ frame' = w.frame
    /\ gen' = w.gen
    /\ mass_sum' = w.mass_sum
    /\ world_source' = source
    /\ mass_sum_write' = FALSE
    /\ uniform_frame' = 0
    /\ enc' = << >>
    /\ submitted' = 0
    /\ last_step' = NoStep
    /\ cur_hist' = <<cur(w.current)>>
    /\ last_readback' = NoReadback
    /\ last_render' = NoRender

Idle == <<snap, file, faults, build_checks, loaded, rb_outcome, rb_result,
          other_vars>>

\* ------------------------------------------------------------------- Init
InitCodecIdle ==
    /\ snap = EmptySnapshot
    /\ file = << >>
    /\ faults = {}
    /\ build_checks = FALSE
    /\ loaded = LoadErr("none")

InitReadbackIdle ==
    /\ rb_outcome = << >>
    /\ rb_result = [some |-> FALSE, fields |-> {}, copies |-> << >>]

NoIdx == [at |-> -1, shifted_x |-> -1, shifted_y |-> -1]

InitPixelIdle ==
    /\ px = 0
    /\ py = 0
    /\ idx = NoIdx

\* Option<u64>
None == [some |-> FALSE, value |-> 0]
Some(v) == [some |-> TRUE, value |-> v]

NoBuffers == [mass |-> << >>, energy |-> << >>, genome_a |-> << >>,
              genome_b |-> << >>, resource_map |-> << >>]

InitWorldGenIdle ==
    /\ seed = None
    /\ use_fixed_seed = FALSE
    /\ fixed_seed_value = 0
    /\ rng = 0
    /\ mass_data = << >>
    /\ energy_data = << >>
    /\ genome_a_data = << >>
    /\ genome_b_data = << >>
    /\ resource_data = << >>
    /\ left = 0
    /\ stamps = << >>
    /\ nests = {}
    /\ buffers = NoBuffers
    /\ world_seed = None
    /\ first_world = << >>
    /\ restarts = 0

NoSpecies == [max |-> -1, count |-> -1]
NoDiag == [total_mass |-> -1, live_pixels |-> -1, avg_mass_live |-> -1,
           genetic_entropy |-> -1, species_count |-> -1]

InitMetricsIdle ==
    /\ diag_snap = [mass |-> << >>, genome_a |-> << >>]
    /\ species = NoSpecies
    /\ entropy = -1
    /\ diag = NoDiag

InitOtherIdle ==
    /\ InitPixelIdle
    /\ InitWorldGenIdle
    /\ InitMetricsIdle

InitWorld ==
    /\ current = WorldState_new.current
    /\ frame = WorldState_new.frame
    /\ gen = WorldState_new.gen
    /\ mass_sum = WorldState_new.mass_sum
    /\ world_source = "fresh"
    /\ mass_sum_write = FALSE
    /\ uniform_frame = 0
    /\ enc = << >>
    /\ submitted = 0
    /\ last_step = NoStep
    /\ cur_hist = <<0>>
    /\ last_readback = NoReadback
    /\ last_render = NoRender
    /\ world_id = 0
    /\ pipelines_world = create_pipelines(0)

NoPerturbation == [count |-> 0, frame |-> -1, submitted |-> -1,
                   encoder_open |-> FALSE]

\* config.rs:63-105, lab.rs:140-170
InitUi ==
    /\ paused = FALSE
    /\ simulation_speed = 1
    /\ mass_normalization_enabled = TRUE
    /\ restart_requested = FALSE
    /\ step_requested = FALSE
    /\ snapshot_requested = FALSE
    /\ metrics_sample_interval = MaxInterval
    /\ last_diag = FALSE
    /\ steps_left = 0
    /\ perturbation_active = FALSE
    /\ perturbations = NoPerturbation

Init ==
    /\ driver \in {"gui", "headless", "legacy"}
    /\ pc = "start"
    /\ result = "running"
    /\ InitWorld
    /\ InitUi
    /\ diag_interval \in (IF driver = "gui" THEN 1..MaxInterval ELSE {1})
    /\ frames \in (IF driver = "headless" THEN 0..MaxFrame ELSE {0})
    /\ load_state_path \in (IF driver = "legacy" THEN {"none"} ELSE PathKinds)
    /\ save_state_path \in (IF driver = "headless" THEN BOOLEAN ELSE {FALSE})
    /\ InitCodecIdle
    /\ InitReadbackIdle
    /\ InitOtherIdle

\* ------------------------------------------------- the parts of one step
\* the uniform upload u reaches the queue
StepUpdate(u) ==
    /\ uniform_frame' = u.uniform_frame
    /\ mass_sum_write' = u.mass_sum_write
    /\ UNCHANGED <<current, frame, world_source, gen, mass_sum, enc, submitted,
                   last_step, cur_hist, last_readback, last_render>>

\* a new command encoder records ps
StepEncode(ps) ==
    /\ enc' = BoundTo(ps, pipelines_world)
    /\ UNCHANGED <<current, frame, world_source, gen, mass_sum, mass_sum_write,
                   uniform_frame, submitted, last_step, cur_hist,
                   last_readback, last_render>>

\* queue.submit of the step's encoder
StepSubmit ==
    LET d == QueueSubmit(enc) IN
    /\ gen' = d.gen
    /\ mass_sum' = d.mass_sum
    /\ mass_sum_write' = FALSE
    /\ submitted' = submitted + 1
    /\ last_step' = [passes |-> enc, cur |-> current, sum_start |-> d.sum_start,
                     zeroed |-> mass_sum_write,
                     norm_enabled |-> mass_normalization_enabled,
                     uniform_frame |-> uniform_frame]
    /\ enc' = << >>
    /\ UNCHANGED <<current, frame, world_source, uniform_frame, cur_hist,
                   last_readback>>

\* world.swap()
StepSwap ==
    LET w == swap(current, frame) IN
    /\ current' = w.current
    /\ frame' = w.frame
    /\ cur_hist' = Append(cur_hist, cur(w.current))
    /\ UNCHANGED <<world_source, gen, mass_sum, mass_sum_write, uniform_frame,
                   enc, submitted, last_step, last_readback, last_render>>

\* the mapping outcomes a readback is tried with
RbCases ==
    { [i \in 1..5 |-> "ok"],
      [i \in 1..5 |-> IF i = 3 THEN "map_err" ELSE "ok"],
      [i \in 1..5 |-> IF i = 5 THEN "recv_err" ELSE "ok"] }

\* a call of world.readback_snapshot: its copy submission flushes the queue
Readback(kind, o) ==
    LET r == readback_snapshot(cur(current), o) IN
    /\ last_readback' = [kind |-> kind, copies |-> r.copies, cur |-> current,
                         frame |-> frame, submitted |-> submitted,
                         gens |-> [f \in Fields |-> gen[f][r.copies[f]]],
                         some |-> r.some]
    /\ mass_sum' = IF mass_sum_write THEN 0 ELSE mass_sum
    /\ mass_sum_write' = FALSE
    /\ UNCHANGED <<current, frame, world_source, gen, uniform_frame, enc,
                   submitted, last_step, cur_hist, last_render>>

\* -------------------------------------------------------------- GUI (app.rs)
\* app.rs:95-192, App::resumed
GuiResumed ==
    /\ driver = "gui" /\ pc = "start"
    /\ LET r == LoadAt(load_state_path)
           applied == load_state_path # "none" /\ r.status = "Ok"
                      /\ apply_snapshot(r.snapshot)
       IN  /\ world_source' = IF applied THEN "snapshot" ELSE "fresh"
           /\ result' = IF load_state_path # "none" /\ r.status = "Panic"
                        THEN "Panic" ELSE result
           /\ pc' = IF load_state_path # "none" /\ r.status = "Panic"
                    THEN "done" ELSE "gui_idle"
    /\ diag_interval' = IF diag_interval > 1 THEN diag_interval ELSE 1
    /\ UNCHANGED <<driver, current, frame, gen, mass_sum, mass_sum_write,
                   uniform_frame, enc, submitted, last_step, cur_hist,
                   last_readback, last_render, paused, simulation_speed,
                   mass_normalization_enabled, restart_requested,
                   step_requested, snapshot_requested,
                   metrics_sample_interval, last_diag, steps_left, cfg_vars, redraw_vars,
                   Idle>>

UiUnchanged == <<driver, pc, result, world_vars, cfg_vars, redraw_vars, Idle, diag_interval,
                 last_diag, steps_left>>

\* app.rs:355-362, lab_ui.rs:107-110
TogglePause ==
    /\ driver = "gui" /\ pc = "gui_idle"
    /\ paused' = ~paused
    /\ UNCHANGED <<UiUnchanged, simulation_speed, mass_normalization_enabled,
                   restart_requested, step_requested, snapshot_requested,
                   metrics_sample_interval>>

\* lab_ui.rs:111-114
StepButton ==
    /\ driver = "gui" /\ pc = "gui_idle"
    /\ ~step_requested
    /\ step_requested' = TRUE
    /\ paused' = TRUE
    /\ UNCHANGED <<UiUnchanged, simulation_speed, mass_normalization_enabled,
                   restart_requested, snapshot_requested,
                   metrics_sample_interval>>

\* app.rs:371-373, lab_ui.rs:115-117
RequestRestart ==
    /\ driver = "gui" /\ pc = "gui_idle"
    /\ ~restart_requested
    /\ restart_requested' = TRUE
    /\ UNCHANGED <<UiUnchanged, paused, simulation_speed,
                   mass_normalization_enabled, step_requested,
                   snapshot_requested, metrics_sample_interval>>

\* lab_ui.rs:124, app.rs:416-423
SetSpeed(s) ==
    /\ driver = "gui" /\ pc = "gui_idle"
    /\ s # simulation_speed
    /\ simulation_speed' = s
    /\ UNCHANGED <<UiUnchanged, paused, mass_normalization_enabled,
                   restart_requested, step_requested, snapshot_requested,
                   metrics_sample_interval>>

\* lab_ui.rs:138
SetDiagInterval(n) ==
    /\ driver = "gui" /\ pc = "gui_idle"
    /\ n # metrics_sample_interval
    /\ metrics_sample_interval' = n
    /\ UNCHANGED <<UiUnchanged, paused, simulation_speed,
                   mass_normalization_enabled, restart_requested,
                   step_requested, snapshot_requested>>

\* lab_ui.rs:212
ToggleNormalization ==
    /\ driver = "gui" /\ pc = "gui_idle"
    /\ mass_normalization_enabled' = ~mass_normalization_enabled
    /\ UNCHANGED <<UiUnchanged, paused, simulation_speed, restart_requested,
                   step_requested, snapshot_requested,
                   metrics_sample_interval>>

\* lab_ui.rs:372-374
RequestSnapshot ==
    /\ driver = "gui" /\ pc = "gui_idle"
    /\ ~snapshot_requested
    /\ snapshot_requested' = TRUE
    /\ UNCHANGED <<UiUnchanged, paused, simulation_speed,
                   mass_normalization_enabled, restart_requested,
                   step_requested, metrics_sample_interval>>

\* WorldState::apply_perturbation (app.rs:495 calls it): a one-shot edit of
\* the fields of the world w, noted with the place it fell at
apply_perturbation(p, w, open) ==
    [count |-> p.count + 1, frame |-> w.frame, submitted |-> w.submitted,
     encoder_open |-> open]

\* a handler that applies the perturbation and leaves the request set
handle_perturbation_sticky(active, p, w, open) ==
    IF active
    THEN [perturbation_active |-> TRUE,
          perturbations |-> apply_perturbation(p, w, open)]
    ELSE [perturbation_active |-> active, perturbations |-> p]

\* app.rs:493-511
handle_perturbation(active, p, w, open) ==
    IF active
    THEN [perturbation_active |-> FALSE,
          perturbations |-> apply_perturbation(p, w, open)]
    ELSE [perturbation_active |-> active, perturbations |-> p]

\* a restart that replaces the world and keeps the pipelines it had
handle_restart_keep_pipelines(requested, w, pl) ==
    IF requested
    THEN [world_id |-> 1 - w, pipelines_world |-> pl]
    ELSE [world_id |-> w, pipelines_world |-> pl]

\* app.rs:477-483: state.world and state.pipelines after the restart
\* handler; the new world is another WorldState than the one it replaces
handle_restart(requested, w, pl) ==
    IF requested
    THEN [world_id |-> 1 - w, pipelines_world |-> create_pipelines(1 - w)]
    ELSE [world_id |-> w, pipelines_world |-> pl]

\* app.rs:433-537 and the branch at 537/561: restart, perturbation, diag
\* interval, and the number of steps this redraw will do
GuiRedrawBegin ==
    /\ driver = "gui" /\ pc = "gui_idle"
    /\ LET steps == IF ~paused THEN simulation_speed
                    ELSE IF step_requested THEN 1 ELSE 0
           base == IF restart_requested THEN 0 ELSE frame
       IN  /\ base + steps <= MaxFrame
           /\ steps_left' = steps
           /\ pc' = IF steps > 0 THEN "gui_update" ELSE "gui_render"
    /\ IF restart_requested
       THEN /\ InstallWorld(new_with_seed, "fresh")
            /\ last_diag' = FALSE
       ELSE UNCHANGED <<world_vars, last_diag>>
    /\ LET r == handle_restart(restart_requested, world_id, pipelines_world)
       IN  /\ world_id' = r.world_id
           /\ pipelines_world' = r.pipelines_world
    /\ restart_requested' = FALSE
    /\ LET h == handle_perturbation(perturbation_active, perturbations,
                                    [frame |-> frame', submitted |-> submitted'],
                                    enc' # << >>)
       IN  /\ perturbation_active' = h.perturbation_active
           /\ perturbations' = h.perturbations
    /\ diag_interval' = IF metrics_sample_interval > 1
                        THEN metrics_sample_interval ELSE 1
    /\ UNCHANGED <<driver, result, paused, simulation_speed,
                   mass_normalization_enabled, step_requested,
                   snapshot_requested, metrics_sample_interval, cfg_vars, Idle>>

GuiStepUnchanged == <<driver, result, paused, simulation_speed,
                      mass_normalization_enabled, restart_requested,
                      snapshot_requested, metrics_sample_interval,
                      diag_interval, last_diag, cfg_vars, redraw_vars, Idle>>

\* the uniform upload hoisted out of the loop: only the first iteration of
\* a redraw stages it
GuiStepUpdate_first_only ==
    /\ driver = "gui" /\ pc = "gui_update"
    /\ StepUpdate(IF paused \/ steps_left = simulation_speed
                  THEN update_step_uniforms_dynamic(frame)
                  ELSE [uniform_frame |-> uniform_frame,
                        mass_sum_write |-> mass_sum_write])
    /\ pc' = "gui_encode"
    /\ UNCHANGED <<GuiStepUnchanged, step_requested, steps_left>>

\* app.rs:540-542, 563-565
GuiStepUpdate ==
    /\ driver = "gui" /\ pc = "gui_update"
    /\ StepUpdate(update_step_uniforms_dynamic(frame))
    /\ pc' = "gui_encode"
    /\ UNCHANGED <<GuiStepUnchanged, step_requested, steps_left>>

\* app.rs:544-557, 566-579
GuiStepEncode ==
    /\ driver = "gui" /\ pc = "gui_encode"
    /\ StepEncode(encode_simulation_passes(cur(current)))
    /\ pc' = "gui_submit"
    /\ UNCHANGED <<GuiStepUnchanged, step_requested, steps_left>>

\* app.rs:558, 580
GuiStepSubmit ==
    /\ driver = "gui" /\ pc = "gui_submit"
    /\ StepSubmit
    /\ pc' = "gui_swap"
    /\ UNCHANGED <<GuiStepUnchanged, step_requested, steps_left, last_render>>

\* the paused single step that leaves step_requested as it found it
GuiStepSwap_keep_request ==
    /\ driver = "gui" /\ pc = "gui_swap"
    /\ StepSwap
    /\ steps_left' = steps_left - 1
    /\ pc' = IF steps_left > 1 THEN "gui_update" ELSE "gui_render"
    /\ UNCHANGED <<GuiStepUnchanged, step_requested>>

\* app.rs:559-560, 581-584
GuiStepSwap ==
    /\ driver = "gui" /\ pc = "gui_swap"
    /\ StepSwap
    /\ steps_left' = steps_left - 1
    /\ step_requested' = IF paused THEN FALSE ELSE step_requested
    /\ pc' = IF steps_left > 1 THEN "gui_update" ELSE "gui_render"
    /\ UNCHANGED GuiStepUnchanged

\* app.rs:586-684, the render pass; the redraw returns at 594-604 when the
\* surface has no texture to give
GuiRender ==
    /\ driver = "gui" /\ pc = "gui_render"
    /\ \E surface_ok \in BOOLEAN :
         IF surface_ok
         THEN LET render_cur == 1 - cur(current) IN
              /\ last_render' = [bg |-> render_cur, cur |-> current,
                                 read |-> render_bind_groups[render_cur].read,
                                 world |-> pipelines_world]
              /\ mass_sum' = IF mass_sum_write THEN 0 ELSE mass_sum
              /\ mass_sum_write' = FALSE
              /\ pc' = "gui_snapshot"
         ELSE /\ pc' = "gui_idle"
              /\ UNCHANGED <<last_render, mass_sum, mass_sum_write>>
    /\ UNCHANGED <<GuiStepUnchanged, step_requested, steps_left, current,
                   frame, world_source, gen, uniform_frame, enc, submitted,
                   last_step, cur_hist, last_readback>>

\* app.rs:780-805
GuiSnapshotSave ==
    /\ driver = "gui" /\ pc = "gui_snapshot"
    /\ IF snapshot_requested
       THEN \E o \in RbCases : Readback("snapshot", o)
       ELSE UNCHANGED world_vars
    /\ snapshot_requested' = FALSE
    /\ pc' = "gui_diag"
    /\ UNCHANGED <<driver, result, paused, simulation_speed,
                   mass_normalization_enabled, restart_requested,
                   step_requested, metrics_sample_interval, diag_interval,
                   last_diag, steps_left, cfg_vars, redraw_vars, Idle>>

\* app.rs:814-834
GuiDiagnostics ==
    /\ driver = "gui" /\ pc = "gui_diag"
    /\ IF ~paused /\ frame > 0 /\ frame % diag_interval = 0
       THEN \E o \in RbCases :
              /\ Readback("diag", o)
              /\ last_diag' = IF readback_snapshot(cur(current), o).some
                              THEN TRUE ELSE last_diag
       ELSE UNCHANGED <<world_vars, last_diag>>
    /\ pc' = "gui_idle"
    /\ UNCHANGED <<driver, result, paused, simulation_speed,
                   mass_normalization_enabled, restart_requested,
                   step_requested, snapshot_requested,
                   metrics_sample_interval, diag_interval, steps_left,
                   cfg_vars, redraw_vars, Idle>>

\* ------------------------------------------------------ headless (headless.rs)
\* headless.rs:58-82: the world, the optional state load, the loop entry
HeadlessStart ==
    /\ driver = "headless" /\ pc = "start"
    /\ LET r == LoadAt(load_state_path) IN
       IF load_state_path = "none"
       THEN /\ world_source' = "fresh"
            /\ result' = result
            /\ pc' = IF frames > 0 THEN "hl_update" ELSE "hl_save"
       ELSE IF r.status = "Panic"
       THEN /\ world_source' = "fresh"
            /\ result' = "Panic"
            /\ pc' = "done"
       ELSE IF r.status # "Ok" \/ ~apply_snapshot(r.snapshot)
       THEN /\ world_source' = "fresh"                 \* map_err(..)?, return Err(..)
            /\ result' = "Err"
            /\ pc' = "done"
       ELSE /\ world_source' = "snapshot"
            /\ result' = result
            /\ pc' = IF frames > 0 THEN "hl_update" ELSE "hl_save"
    /\ steps_left' = frames
    /\ UNCHANGED <<driver, current, frame, gen, mass_sum, mass_sum_write,
                   uniform_frame, enc, submitted, last_step, cur_hist,
                   last_readback, last_render, paused, simulation_speed,
                   mass_normalization_enabled, restart_requested,
                   step_requested, snapshot_requested,
                   metrics_sample_interval, diag_interval, last_diag,
                   cfg_vars, redraw_vars, Idle>>

OtherUnchanged == <<driver, result, paused, simulation_speed,
                    mass_normalization_enabled, restart_requested,
                    step_requested, snapshot_requested,
                    metrics_sample_interval, diag_interval, last_diag,
                    cfg_vars, redraw_vars, Idle>>

\* headless.rs:85
HeadlessStepUpdate ==
    /\ driver = "headless" /\ pc = "hl_update"
    /\ StepUpdate(update_step_uniforms(frame))
    /\ pc' = "hl_encode"
    /\ UNCHANGED <<OtherUnchanged, steps_left>>

\* headless.rs:86-98
HeadlessStepEncode ==
    /\ driver = "headless" /\ pc = "hl_encode"
    /\ StepEncode(headless_encode_simulation_passes(cur(current)))
    /\ pc' = "hl_submit"
    /\ UNCHANGED <<OtherUnchanged, steps_left>>

\* headless.rs:99
HeadlessStepSubmit ==
    /\ driver = "headless" /\ pc = "hl_submit"
    /\ StepSubmit
    /\ pc' = "hl_swap"
    /\ UNCHANGED <<OtherUnchanged, steps_left, last_render>>

\* headless.rs:100-131
HeadlessStepSwap ==
    /\ driver = "headless" /\ pc = "hl_swap"
    /\ StepSwap
    /\ steps_left' = steps_left - 1
    /\ pc' = IF steps_left > 1 THEN "hl_update" ELSE "hl_save"
    /\ UNCHANGED OtherUnchanged

\* headless.rs:133-142
HeadlessSave ==
    /\ driver = "headless" /\ pc = "hl_save"
    /\ IF save_state_path
       THEN \E o \in RbCases :
              /\ Readback("final", o)
              /\ result' = IF readback_snapshot(cur(current), o).some
                           THEN "Ok" ELSE "Err"   \* ok_or_else(..)?
       ELSE /\ UNCHANGED world_vars
            /\ result' = "Ok"
    /\ pc' = "done"
    /\ UNCHANGED <<driver, ui_vars, cfg_vars, redraw_vars, Idle>>

\* ------------------------------------------------- legacy main loop (main.rs)
\* main.rs:458-548
LegacyResumed ==
    /\ driver = "legacy" /\ pc = "start"
    /\ pc' = "lg_idle"
    /\ UNCHANGED <<driver, result, world_vars, ui_vars, cfg_vars, redraw_vars, Idle>>

\* main.rs:578-583
LegacyUpdate ==
    /\ driver = "legacy" /\ pc = "lg_idle"
    /\ frame < MaxFrame
    /\ StepUpdate(update_uniforms(frame))
    /\ pc' = "lg_encode"
    /\ UNCHANGED <<OtherUnchanged, steps_left>>

\* main.rs:586-699: the five compute passes, then the render pass; the
\* handler returns at 659-669, dropping the encoder, when the surface has no
\* texture to give
LegacyEncode ==
    /\ driver = "legacy" /\ pc = "lg_encode"
    /\ \E surface_ok \in BOOLEAN :
         IF surface_ok
         THEN /\ StepEncode(legacy_encode_compute_passes(cur(current))
                            \o legacy_encode_render_pass(cur(current)))
              /\ pc' = "lg_submit"
         ELSE /\ StepEncode(<< >>)
              /\ pc' = "lg_idle"
    /\ UNCHANGED <<OtherUnchanged, steps_left>>

\* main.rs:701-702
LegacySubmit ==
    /\ driver = "legacy" /\ pc = "lg_submit"
    /\ StepSubmit
    /\ last_render' = [bg |-> enc[Len(enc)].bg, cur |-> current,
                       read |-> enc[Len(enc)].bind.read,
                       world |-> enc[Len(enc)].world]
    /\ pc' = "lg_swap"
    /\ UNCHANGED <<OtherUnchanged, steps_left>>

\* main.rs:705-714
LegacySwap ==
    /\ driver = "legacy" /\ pc = "lg_swap"
    /\ StepSwap
    /\ pc' = "lg_idle"
    /\ UNCHANGED <<OtherUnchanged, steps_left>>

\* ------------------------------------------------------------------- Spec
Next ==
    \/ GuiResumed
    \/ TogglePause
    \/ StepButton
    \/ RequestRestart
    \/ \E s \in 1..MaxSpeed : SetSpeed(s)
    \/ \E n \in 1..MaxInterval : SetDiagInterval(n)
    \/ ToggleNormalization
    \/ RequestSnapshot
    \/ GuiRedrawBegin
    \/ GuiStepUpdate
    \/ GuiStepEncode
    \/ GuiStepSubmit
    \/ GuiStepSwap
    \/ GuiRender
    \/ GuiSnapshotSave
    \/ GuiDiagnostics
    \/ HeadlessStart
    \/ HeadlessStepUpdate
    \/ HeadlessStepEncode
    \/ HeadlessStepSubmit
    \/ HeadlessStepSwap
    \/ HeadlessSave
    \/ LegacyResumed
    \/ LegacyUpdate
    \/ LegacyEncode
    \/ LegacySubmit
    \/ LegacySwap

Spec == Init /\ [][Next]_vars

\* ----------------------------------------------------------- SpecPerturb
\* the GUI with a control that raises a perturbation request
\* (config.rs:48); the handler of the request is app.rs:493-511
RequestPerturbation ==
    /\ driver = "gui" /\ pc = "gui_idle"
    /\ ~perturbation_active
    /\ perturbations.count < MaxPerturbations
    /\ perturbation_active' = TRUE
    /\ UNCHANGED <<driver, pc, result, world_vars, ui_vars, cfg_vars,
                   perturbations, world_id, pipelines_world, Idle>>

InitPerturb ==
    /\ Init
    /\ driver = "gui"
    /\ load_state_path = "none"
    /\ diag_interval = 1

NextPerturb ==
    \/ GuiResumed
    \/ TogglePause
    \/ StepButton
    \/ RequestRestart
    \/ \E s \in 1..MaxSpeed : SetSpeed(s)
    \/ RequestPerturbation
    \/ GuiRedrawBegin
    \/ GuiStepUpdate
    \/ GuiStepEncode
    \/ GuiStepSubmit
    \/ GuiStepSwap
    \/ GuiRender
    \/ GuiSnapshotSave
    \/ GuiDiagnostics

SpecPerturb == InitPerturb /\ [][NextPerturb]_vars

\* ------------------------------------------------------------- SpecCodec
ArrayNames == <<"mass", "energy", "genome_a", "genome_b", "resource">>

\* the snapshots handed to the codec: every combination of array lengths up
\* to MaxLen, the bit patterns of F32Samples spread over the elements
SampleSnapshot(lens, shift) ==
    [a \in {ArrayNames[k] : k \in 1..5} |->
        LET k == CHOOSE i \in 1..5 : ArrayNames[i] = a IN
        [j \in 1..lens[k] |->
            F32Samples[((2 * k + j + shift) % Len(F32Samples)) + 1]]]

\* where array k's length prefix starts in the file save_snapshot writes
RECURSIVE LenOffset(_, _)
LenOffset(s, k) ==
    IF k = 1 THEN 16
    ELSE LenOffset(s, k - 1) + 8 + 4 * Len(s[ArrayNames[k - 1]])

\* element counts no file of the model can hold: 2^24, 2^61, 2^62, 2^62 + 1
LenSamples == { <<0, 0, 0, 1, 0, 0, 0, 0>>, <<0, 0, 0, 0, 0, 0, 0, 32>>,
                <<0, 0, 0, 0, 0, 0, 0, 64>>, <<1, 0, 0, 0, 0, 0, 0, 64>> }

InitCodec ==
    /\ driver = "codec"
    /\ pc = "new"
    /\ result = "running"
    /\ InitWorld
    /\ InitUi
    /\ diag_interval = 1
    /\ frames = 0
    /\ load_state_path = "none"
    /\ save_state_path = FALSE
    /\ InitReadbackIdle
    /\ InitOtherIdle
    /\ \E lens \in [1..5 -> 0..MaxLen], shift \in {0, 3} :
          snap = SampleSnapshot(lens, shift)
    /\ file = << >>
    /\ faults = {}
    /\ build_checks \in BOOLEAN
    /\ loaded = LoadErr("none")

CodecUnchanged == <<driver, result, world_vars, ui_vars, cfg_vars, redraw_vars, rb_outcome,
                    rb_result, snap, build_checks, other_vars>>

\* state_io.rs:13-25
Save ==
    /\ driver = "codec" /\ pc = "new"
    /\ file' = save_snapshot(snap)
    /\ pc' = "saved"
    /\ UNCHANGED <<CodecUnchanged, faults, loaded>>

\* the file is cut short after k bytes
Truncate(k) ==
    /\ driver = "codec" /\ pc = "saved" /\ faults = {}
    /\ file' = SubSeq(file, 1, k)
    /\ faults' = {"truncated"}
    /\ UNCHANGED <<CodecUnchanged, pc, loaded>>

\* the file was written by a build for a w x h grid
WrongDims(w, h) ==
    /\ driver = "codec" /\ pc = "saved" /\ faults = {}
    /\ <<w, h>> # <<WORLD_WIDTH, WORLD_HEIGHT>>
    /\ file' = SetDims(file, w, h)
    /\ faults' = {"dims"}
    /\ UNCHANGED <<CodecUnchanged, pc, loaded>>

\* byte i of the magic tag differs
CorruptMagic(i) ==
    /\ driver = "codec" /\ pc = "saved" /\ faults \subseteq {"dims"}
    /\ file' = [file EXCEPT ![i] = (@ + 1) % 256]
    /\ faults' = faults \cup {"magic"}
    /\ UNCHANGED <<CodecUnchanged, pc, loaded>>

\* array k declares len elements, more than the file holds
CorruptLen(k, len) ==
    /\ driver = "codec" /\ pc = "saved" /\ faults \subseteq {"dims"}
    /\ LET off == LenOffset(snap, k) IN
       file' = SubSeq(file, 1, off) \o len \o SubSeq(file, off + 9, Len(file))
    /\ faults' = faults \cup {"length"}
    /\ UNCHANGED <<CodecUnchanged, pc, loaded>>

\* state_io.rs:27-61
Load ==
    /\ driver = "codec" /\ pc = "saved"
    /\ loaded' = load_snapshot(file, build_checks)
    /\ pc' = "loaded"
    /\ UNCHANGED <<CodecUnchanged, file, faults>>

NextCodec ==
    \/ Save
    \/ \E k \in 0..(Len(file) - 1) : Truncate(k)
    \/ \E w \in {WORLD_WIDTH, WORLD_WIDTH + 1},
          h \in {WORLD_HEIGHT, WORLD_HEIGHT + 1} : WrongDims(w, h)
    \/ \E i \in 1..8 : CorruptMagic(i)
    \/ \E k \in 1..5, len \in LenSamples : CorruptLen(k, len)
    \/ Load

SpecCodec == InitCodec /\ [][NextCodec]_vars

\* ----------------------------------------------------------- SpecReadback
InitReadback ==
    /\ driver = "readback"
    /\ pc = "call"
    /\ result = "running"
    /\ InitWorld
    /\ InitUi
    /\ diag_interval = 1
    /\ frames = 0
    /\ load_state_path = "none"
    /\ save_state_path = FALSE
    /\ InitCodecIdle
    /\ InitOtherIdle
    /\ rb_outcome \in [1..5 -> MapOutcomes]
    /\ rb_result = [some |-> FALSE, fields |-> {}, copies |-> << >>]

\* world.rs:644-687
ReadbackCall ==
    /\ driver = "readback" /\ pc = "call"
    /\ rb_result' = readback_snapshot(cur(current), rb_outcome)
    /\ pc' = "returned"
    /\ UNCHANGED <<driver, result, world_vars, ui_vars, cfg_vars, redraw_vars, codec_vars,
                   rb_outcome, other_vars>>

NextReadback == ReadbackCall

SpecReadback == InitReadback /\ [][NextReadback]_vars

\* ============================================== pixel_idx (world.rs:150-158)
\* `%` of Rust on i32: the remainder takes the sign of the dividend
rem(a, n) ==
    LET r == a % n IN IF a < 0 /\ r # 0 THEN r - n ELSE r

\* the index without the second wrap: ((px % w), (py % h))
pixel_idx_single_rem(x, y) ==
    rem(y, WORLD_HEIGHT) * WORLD_WIDTH + rem(x, WORLD_WIDTH)

\* world.rs:154-158, the closure pixel_idx of WorldState::new
pixel_idx(x, y) ==
    LET w == WORLD_WIDTH
        h == WORLD_HEIGHT
        wx == rem(rem(x, w) + w, w)
        wy == rem(rem(y, h) + h, h)
    IN  wy * WORLD_WIDTH + wx

\* the i32 values next to the ends of the type for which px + W and py + H
\* are still i32 values
I32_MIN == -2147483647 - 1
I32_TOP == 2147483647 - WORLD_WIDTH - WORLD_HEIGHT

\* the coordinates tried: every value within MaxCoord of zero, and the ends
Coords == (-MaxCoord..MaxCoord) \cup {I32_MIN, I32_MIN + 1, I32_TOP}

InitPixel ==
    /\ driver = "pixel"
    /\ pc = "call"
    /\ result = "running"
    /\ InitWorld
    /\ InitUi
    /\ diag_interval = 1
    /\ frames = 0
    /\ load_state_path = "none"
    /\ save_state_path = FALSE
    /\ InitCodecIdle
    /\ InitReadbackIdle
    /\ InitWorldGenIdle
    /\ InitMetricsIdle
    /\ px \in Coords
    /\ py \in Coords
    /\ idx = NoIdx

\* pixel_idx applied to a coordinate pair and to the pair moved by one
\* world width and by one world height
PixelCall ==
    /\ driver = "pixel" /\ pc = "call"
    /\ idx' = [at |-> pixel_idx(px, py),
               shifted_x |-> pixel_idx(px + WORLD_WIDTH, py),
               shifted_y |-> pixel_idx(px, py + WORLD_HEIGHT)]
    /\ pc' = "returned"
    /\ UNCHANGED <<driver, result, world_vars, ui_vars, cfg_vars, redraw_vars, codec_vars,
                   readback_vars, px, py, worldgen_vars, metrics_vars>>

NextPixel == PixelCall

SpecPixel == InitPixel /\ [][NextPixel]_vars

\* ===================================== the world generator (world.rs:128-452)
\* The f32 quantities of the generator are held as integers in thousandths
\* (mutation rates in ten-thousandths): 1.0 is Unit.
Unit == 10 * 10 * 10

Min(a, b) == IF a < b THEN a ELSE b
Max(a, b) == IF a > b THEN a ELSE b

\* `as i32` on an f32 held in thousandths: the fraction is dropped, toward zero
as_i32(v) == IF v >= 0 THEN v \div Unit ELSE -((-v) \div Unit)

\* f32::sqrt of an integer n, in thousandths
RECURSIVE Newton(_, _)
Newton(n, x) ==
    LET y == (x + n \div x) \div 2 IN IF y >= x THEN x ELSE Newton(n, y)
isqrt(n) == IF n = 0 THEN 0 ELSE Newton(n, n)
sqrt(n) == isqrt(n * Unit * Unit)

\* f32::exp of -(num / den) for num >= 0 and den > 0, in thousandths, by the
\* rational 1 / (1 + x + x^2 / 2): positive and at most 1 like the function
\* itself on arguments that are not positive
exp_neg(num, den) ==
    (Unit * 2 * den * den) \div (2 * den * den + 2 * num * den + num * num)

\* one step of the generator behind `rng`
rng_next(s) == (5 * s + 3) % RngMod

\* rng.gen_range(lo..hi): the next output scaled into [lo, hi)
gen_range(s, lo, hi) ==
    [rng |-> rng_next(s), val |-> lo + (rng_next(s) * (hi - lo)) \div RngMod]

\* the arrays with a default genome of sigma 0
NewLocals_sigma_zero(s) ==
    [rng |-> s,
     mass_data |-> [i \in 0..(total_pixels - 1) |-> 0],
     energy_data |-> [i \in 0..(total_pixels - 1) |-> Unit \div 2],
     genome_a_data |-> [i \in 0..(total_pixels - 1) |-> <<5 * Unit, 500, 0, 0>>],
     genome_b_data |-> [i \in 0..(total_pixels - 1) |-> 100],
     resource_data |-> [i \in 0..(total_pixels - 1) |-> Unit],
     stamps |-> << >>,
     nests |-> {}]

\* what the arrays hold before the first pattern (world.rs:132-139)
NewLocals(s) ==
    [rng |-> s,
     mass_data |-> [i \in 0..(total_pixels - 1) |-> 0],
     energy_data |-> [i \in 0..(total_pixels - 1) |-> Unit \div 2],
     genome_a_data |-> [i \in 0..(total_pixels - 1) |-> <<5 * Unit, 500, 150, 0>>],
     genome_b_data |-> [i \in 0..(total_pixels - 1) |-> 100],
     resource_data |-> [i \in 0..(total_pixels - 1) |-> Unit],
     stamps |-> << >>,
     nests |-> {}]

\* stamp that adds the mass without the upper clamp
stamp_unclamped(g, i, m, e, genome, mut_rate) ==
    LET after == g.mass_data[i] + m IN
    [g EXCEPT !.mass_data[i] = after,
              !.energy_data[i] = e,
              !.genome_a_data[i] = genome,
              !.genome_b_data[i] = mut_rate,
              !.stamps = Append(@, [idx |-> i, m |-> m,
                                    before |-> g.mass_data[i],
                                    after |-> after])]

\* world.rs:161-174, the closure stamp; the call is noted in stamps
stamp(g, i, m, e, genome, mut_rate) ==
    LET after == Min(g.mass_data[i] + m, Unit) IN
    [g EXCEPT !.mass_data[i] = after,
              !.energy_data[i] = e,
              !.genome_a_data[i] = genome,
              !.genome_b_data[i] = mut_rate,
              !.stamps = Append(@, [idx |-> i, m |-> m,
                                    before |-> g.mass_data[i],
                                    after |-> after])]

\* world.rs:177-184, the closure random_genome
random_genome(s) ==
    LET gene_r == gen_range(s, 3 * Unit, 9 * Unit)
        gene_mu == gen_range(gene_r.rng, 120, 300)
        gene_sigma == gen_range(gene_mu.rng, 40, 180)
        gene_agg == gen_range(gene_sigma.rng, 0, 600)
        gene_mut == gen_range(gene_agg.rng, 5, 80)
    IN  [rng |-> gene_mut.rng,
         genome |-> <<gene_r.val, gene_mu.val, gene_sigma.val, gene_agg.val>>,
         mut_rate |-> gene_mut.val]

\* the pairs (dx, dy) of `for dy in -ir..=ir { for dx in -ir..=ir`, in order
Offsets(ir) ==
    LET n == 2 * ir + 1 IN
    [k \in 1..(n * n) |-> <<((k - 1) % n) - ir, ((k - 1) \div n) - ir>>]

\* one turn, std::f32::consts::TAU, in thousandths
TAU == (2 * 3141593) \div Unit

\* f32::cos and f32::sin of an angle in thousandths of a radian, by the
\* triangle wave of the same period, range and zeros
cos(a) ==
    LET r == a % TAU
        half == TAU \div 2
    IN  IF r <= half THEN Unit - (2 * Unit * r) \div half
        ELSE (2 * Unit * (r - half)) \div half - Unit
sin(a) == cos(a - TAU \div 4)

\* the values of `for s in 0..=steps` and `for arm in 0..arms`, in order
Counting(first, last) == [k \in 1..(last - first + 1) |-> first + k - 1]

\* a `for` loop of the generator: the body of the loop named `loop` runs on
\* items[lo], ..., items[hi] in that order, each pass on the arrays the
\* pass before left
RECURSIVE for_each(_, _, _, _, _, _)

\* ---- pattern 1: Gaussian clusters (world.rs:186-205)
\* world.rs:197-203, the body of the loops over the offsets
cluster_at(g, off, c) ==
    LET dx == off[1]
        dy == off[2]
        d2 == dx * dx + dy * dy
        falloff == exp_neg(2 * d2, c.radius * c.radius)
    IN  IF d2 > c.radius * c.radius THEN g       \* dist > radius: continue
        ELSE stamp(g, pixel_idx(c.cx + dx, c.cy + dy), falloff, 500,
                   c.genome, c.mut_rate)

\* world.rs:189-204, one cluster; the radius 5..15 is scaled to 1..2
cluster(g) ==
    LET cx == gen_range(g.rng, 0, WORLD_WIDTH)
        cy == gen_range(cx.rng, 0, WORLD_HEIGHT)
        radius == gen_range(cy.rng, 1, 3)
        rg == random_genome(radius.rng)
        offs == Offsets(radius.val + 1)
    IN  for_each("cluster", [g EXCEPT !.rng = rg.rng, !.stamps = << >>],
                 offs, 1, Len(offs),
                 [cx |-> cx.val, cy |-> cy.val, radius |-> radius.val,
                  genome |-> rg.genome, mut_rate |-> rg.mut_rate])

\* ---- pattern 2: rings (world.rs:207-232)
\* world.rs:220-230
ring_at(g, off, c) ==
    LET dx == off[1]
        dy == off[2]
        dist == sqrt(dx * dx + dy * dy)
        edge == (c.thickness * 3) \div 10
        edge_outer == Unit - Max(((dist - c.outer_r + edge) * Unit) \div edge, 0)
        edge_inner == Min(((dist - c.inner_r) * Unit) \div edge, Unit)
        m == Max(0, Min((edge_outer * edge_inner) \div Unit, Unit))
    IN  IF dist > c.outer_r \/ dist < c.inner_r THEN g
        ELSE IF m < 10 THEN g
        ELSE stamp(g, pixel_idx(c.cx + dx, c.cy + dy), (m * 8) \div 10, 600,
                   c.genome, c.mut_rate)

\* world.rs:209-231, one ring; the outer radius 10..25 is scaled to 2..3 and
\* the least thickness 2.0 with it
ring(g) ==
    LET cx == gen_range(g.rng, 0, WORLD_WIDTH)
        cy == gen_range(cx.rng, 0, WORLD_HEIGHT)
        outer == gen_range(cy.rng, 2, 4)
        ratio == gen_range(outer.rng, 400, 700)
        outer_r == outer.val * Unit
        inner_r == (outer_r * ratio.val) \div Unit
        thickness == Max(outer_r - inner_r, 400)
        rg == random_genome(ratio.rng)
        offs == Offsets(outer.val + 1)
    IN  for_each("ring", [g EXCEPT !.rng = rg.rng, !.stamps = << >>],
                 offs, 1, Len(offs),
                 [cx |-> cx.val, cy |-> cy.val, outer_r |-> outer_r,
                  inner_r |-> inner_r, thickness |-> thickness,
                  genome |-> rg.genome, mut_rate |-> rg.mut_rate])

\* ---- pattern 3: lines (world.rs:234-265)
\* world.rs:256-262, the body of the loops around the point (lx, ly)
line_at(g, off, c) ==
    LET dx == off[1]
        dy == off[2]
        d == sqrt(dx * dx + dy * dy)
        m == Max(Unit - (d * Unit) \div c.half_width, 0)
    IN  IF d > c.half_width THEN g
        ELSE stamp(g, pixel_idx(as_i32(c.lx) + dx, as_i32(c.ly) + dy),
                   (m * 7) \div 10, 500, c.genome, c.mut_rate)

\* world.rs:248-264, the body of `for s in 0..=steps`
line_step_at(g, step, c) ==
    LET travelled == (step * c.length) \div c.steps          \* t * length
        a == c.angle + (c.curvature * travelled) \div Unit
        lx == c.x0 * Unit + (cos(a) * travelled) \div Unit
        ly == c.y0 * Unit + (sin(a) * travelled) \div Unit
        offs == Offsets(as_i32(c.half_width) + 1)
    IN  for_each("line", g, offs, 1, Len(offs),
                 [lx |-> lx, ly |-> ly] @@ c)

\* world.rs:236-264, one line; the length 30..80 is scaled to 1..2 and the
\* half width 1.5..4.0 to 0.5..1.5
line(g) ==
    LET x0 == gen_range(g.rng, 0, WORLD_WIDTH)
        y0 == gen_range(x0.rng, 0, WORLD_HEIGHT)
        angle == gen_range(y0.rng, 0, TAU)
        length == gen_range(angle.rng, 1, 3)
        half_width == gen_range(length.rng, 500, 1500)
        rg == random_genome(half_width.rng)
        curvature == gen_range(rg.rng, -20, 20)
        steps == as_i32(length.val * Unit * 2)
    IN  for_each("line_step",
                 [g EXCEPT !.rng = curvature.rng, !.stamps = << >>],
                 Counting(0, steps), 1, steps + 1,
                 [x0 |-> x0.val, y0 |-> y0.val, angle |-> angle.val,
                  length |-> length.val * Unit, steps |-> steps,
                  half_width |-> half_width.val,
                  curvature |-> curvature.val,
                  genome |-> rg.genome, mut_rate |-> rg.mut_rate])

\* ---- pattern 4: spirals (world.rs:267-302)
\* world.rs:290-298, the body of the loops around the point (sx, sy)
spiral_at(g, off, c) ==
    LET dx == off[1]
        dy == off[2]
        d == sqrt(dx * dx + dy * dy)
        fade == Unit - (c.t * 3) \div 10                     \* 1 - t * 0.3
        m == ((Unit - (d * Unit) \div c.arm_width) * fade) \div Unit
    IN  IF d > c.arm_width THEN g
        ELSE IF m < 10 THEN g
        ELSE stamp(g, pixel_idx(as_i32(c.sx) + dx, as_i32(c.sy) + dy),
                   (m * 6) \div 10, 550, c.genome, c.mut_rate)

\* world.rs:281-299, the body of `for s in 0..=steps`
spiral_step_at(g, step, c) ==
    LET t == (step * Unit) \div c.steps
        arm_offset == (TAU * c.arm) \div c.arms
        theta == (t * c.max_angle) \div Unit + arm_offset
        r == (t * c.scale) \div Unit
        sx == c.cx * Unit + (cos(theta) * r) \div Unit
        sy == c.cy * Unit + (sin(theta) * r) \div Unit
        offs == Offsets(as_i32(c.arm_width) + 1)
    IN  for_each("spiral", g, offs, 1, Len(offs),
                 [t |-> t, sx |-> sx, sy |-> sy] @@ c)

\* world.rs:278-301, the body of `for arm in 0..arms`
spiral_arm_at(g, arm, c) ==
    for_each("spiral_step", g, Counting(0, c.steps), 1, c.steps + 1,
             [arm |-> arm] @@ c)

\* world.rs:269-301, one spiral; the scale 15..35 is scaled to 0.3..0.9 and
\* the arm width 1.5..3.5 to 0.5..1.5
spiral(g) ==
    LET cx == gen_range(g.rng, 0, WORLD_WIDTH)
        cy == gen_range(cx.rng, 0, WORLD_HEIGHT)
        arms == gen_range(cy.rng, 2, 5)
        max_angle == gen_range(arms.rng, 3 * Unit, 6 * Unit)
        scale == gen_range(max_angle.rng, 300, 900)
        arm_width == gen_range(scale.rng, 500, 1500)
        rg == random_genome(arm_width.rng)
    IN  for_each("spiral_arm", [g EXCEPT !.rng = rg.rng, !.stamps = << >>],
                 Counting(0, arms.val - 1), 1, arms.val,
                 [cx |-> cx.val, cy |-> cy.val, arms |-> arms.val,
                  max_angle |-> max_angle.val, scale |-> scale.val,
                  arm_width |-> arm_width.val,
                  steps |-> as_i32((max_angle.val * scale.val * 2) \div Unit),
                  genome |-> rg.genome, mut_rate |-> rg.mut_rate])

\* ---- pattern 5: scattered patches (world.rs:304-326)
\* world.rs:315-324; the generator is drawn from inside the loops
patch_at(g, off, c) ==
    LET dx == off[1]
        dy == off[2]
        dist == sqrt(dx * dx + dy * dy)
        fill == gen_range(g.rng, 0, Unit)               \* rng.gen::<f32>()
        falloff == Unit - (dist * Unit) \div (c.patch_r * Unit)
        amount == gen_range(fill.rng, 100, 500)
        m == (falloff * amount.val) \div Unit
    IN  IF dist > c.patch_r * Unit THEN g
        ELSE IF fill.val > c.density THEN [g EXCEPT !.rng = fill.rng]
        ELSE stamp([g EXCEPT !.rng = amount.rng],
                   pixel_idx(c.cx + dx, c.cy + dy), m, 400, c.genome,
                   c.mut_rate)

\* world.rs:306-325, one patch; the radius 15..40 is scaled to 1..2
patch(g) ==
    LET cx == gen_range(g.rng, 0, WORLD_WIDTH)
        cy == gen_range(cx.rng, 0, WORLD_HEIGHT)
        patch_r == gen_range(cy.rng, 1, 3)
        density == gen_range(patch_r.rng, 50, 150)
        rg == random_genome(density.rng)
        offs == Offsets(patch_r.val)
    IN  for_each("patch", [g EXCEPT !.rng = rg.rng, !.stamps = << >>],
                 offs, 1, Len(offs),
                 [cx |-> cx.val, cy |-> cy.val, patch_r |-> patch_r.val,
                  density |-> density.val,
                  genome |-> rg.genome, mut_rate |-> rg.mut_rate])

\* ---- pattern 6: apex predator nests (world.rs:328-352)
\* a nest that leaves the genome and energy of an occupied cell as they are
predator_at_keep_occupied(g, off, c) ==
    LET dx == off[1]
        dy == off[2]
        d2 == dx * dx + dy * dy
        m == exp_neg(10 * d2, 6 * c.radius * c.radius)
        i == pixel_idx(c.cx + dx, c.cy + dy)
        s == IF g.mass_data[i] > 0
             THEN stamp(g, i, (m * 9) \div 10, g.energy_data[i],
                        g.genome_a_data[i], g.genome_b_data[i])
             ELSE stamp(g, i, (m * 9) \div 10, 800, c.genome, c.gene_mut)
    IN  IF d2 > c.radius * c.radius THEN g
        ELSE [s EXCEPT !.nests = @ \cup {i}]

\* world.rs:344-350; the cell is noted in nests
predator_at(g, off, c) ==
    LET dx == off[1]
        dy == off[2]
        d2 == dx * dx + dy * dy
        m == exp_neg(10 * d2, 6 * c.radius * c.radius)
        i == pixel_idx(c.cx + dx, c.cy + dy)
    IN  IF d2 > c.radius * c.radius THEN g
        ELSE [stamp(g, i, (m * 9) \div 10, 800, c.genome, c.gene_mut)
                 EXCEPT !.nests = @ \cup {i}]

\* world.rs:330-351, one nest; the radius 3..7 is scaled to 1..2
predator(g) ==
    LET cx == gen_range(g.rng, 0, WORLD_WIDTH)
        cy == gen_range(cx.rng, 0, WORLD_HEIGHT)
        radius == gen_range(cy.rng, 1, 3)
        gene_r == gen_range(radius.rng, 4 * Unit, 7 * Unit)
        gene_mu == gen_range(gene_r.rng, 150, 250)
        gene_sigma == gen_range(gene_mu.rng, 60, 120)
        gene_agg == gen_range(gene_sigma.rng, 700, Unit)
        gene_mut == gen_range(gene_agg.rng, 10, 50)
        offs == Offsets(radius.val + 1)
    IN  for_each("predator",
                 [g EXCEPT !.rng = gene_mut.rng, !.stamps = << >>],
                 offs, 1, Len(offs),
                 [cx |-> cx.val, cy |-> cy.val, radius |-> radius.val,
                  genome |-> <<gene_r.val, gene_mu.val, gene_sigma.val,
                               gene_agg.val>>,
                  gene_mut |-> gene_mut.val])

\* ---- the resource map (world.rs:354-410)
\* world.rs:373-378
oasis_at(g, off, c) ==
    LET dx == off[1]
        dy == off[2]
        d2 == dx * dx + dy * dy
        boost == (3 * exp_neg(2 * d2, c.radius * c.radius)) \div 10
        i == pixel_idx(c.cx + dx, c.cy + dy)
    IN  IF d2 > c.radius * c.radius THEN g
        ELSE [g EXCEPT !.resource_data[i] = Min(@ + boost, Unit)]

\* world.rs:367-379, one oasis; the radius 20..60 is scaled to 1..2
oasis(g) ==
    LET cx == gen_range(g.rng, 0, WORLD_WIDTH)
        cy == gen_range(cx.rng, 0, WORLD_HEIGHT)
        radius == gen_range(cy.rng, 1, 3)
        offs == Offsets(radius.val + 1)
    IN  for_each("oasis", [g EXCEPT !.rng = radius.rng, !.stamps = << >>],
                 offs, 1, Len(offs),
                 [cx |-> cx.val, cy |-> cy.val, radius |-> radius.val])

\* world.rs:391-396
desert_at(g, off, c) ==
    LET dx == off[1]
        dy == off[2]
        d2 == dx * dx + dy * dy
        reduction == (5 * exp_neg(2 * d2, c.radius * c.radius)) \div 10
        i == pixel_idx(c.cx + dx, c.cy + dy)
    IN  IF d2 > c.radius * c.radius THEN g
        ELSE [g EXCEPT !.resource_data[i] = Max(@ - reduction, 50)]

\* world.rs:385-397, one desert; the radius 25..50 is scaled to 1..2
desert(g) ==
    LET cx == gen_range(g.rng, 0, WORLD_WIDTH)
        cy == gen_range(cx.rng, 0, WORLD_HEIGHT)
        radius == gen_range(cy.rng, 1, 3)
        offs == Offsets(radius.val + 1)
    IN  for_each("desert", [g EXCEPT !.rng = radius.rng, !.stamps = << >>],
                 offs, 1, Len(offs),
                 [cx |-> cx.val, cy |-> cy.val, radius |-> radius.val])

\* the body of the loop named `loop` on one item
loop_body(loop, g, item, c) ==
    CASE loop = "cluster" -> cluster_at(g, item, c)
      [] loop = "ring" -> ring_at(g, item, c)
      [] loop = "line" -> line_at(g, item, c)
      [] loop = "line_step" -> line_step_at(g, item, c)
      [] loop = "spiral" -> spiral_at(g, item, c)
      [] loop = "spiral_step" -> spiral_step_at(g, item, c)
      [] loop = "spiral_arm" -> spiral_arm_at(g, item, c)
      [] loop = "patch" -> patch_at(g, item, c)
      [] loop = "predator" -> predator_at(g, item, c)
      [] loop = "oasis" -> oasis_at(g, item, c)
      [] loop = "desert" -> desert_at(g, item, c)

for_each(loop, g, items, lo, hi, c) ==
    IF lo > hi THEN g
    ELSE IF lo = hi THEN loop_body(loop, g, items[lo], c)
    ELSE LET mid == (lo + hi) \div 2 IN
         \* the second half runs on the value v the first half produced
         CHOOSE r \in { for_each(loop, v, items, mid + 1, hi, c) :
                            v \in {for_each(loop, g, items, lo, mid, c)} } :
             TRUE

\* world.rs:400-410, the sinusoidal bands over every cell
gradient(g) ==
    LET fx == gen_range(g.rng, Unit, 4 * Unit)
        fy == gen_range(fx.rng, Unit, 4 * Unit)
        phase == gen_range(fy.rng, 0, TAU)
        freq_x == ((fx.val * TAU) \div Unit) \div WORLD_WIDTH
        freq_y == ((fy.val * TAU) \div Unit) \div WORLD_HEIGHT
        wave(i) == sin((i % WORLD_WIDTH) * freq_x
                       + (i \div WORLD_WIDTH) * freq_y + phase.val) \div 10
    IN  [g EXCEPT !.rng = phase.rng,
                  !.stamps = << >>,
                  !.resource_data =
                      [i \in 0..(total_pixels - 1) |->
                          Max(50, Min(g.resource_data[i] + wave(i), Unit))]]

\* world.rs:411-452, the buffers created from the arrays: generation 0 in
\* buffer 0 of each ping-pong pair, zeros in buffer 1
create_buffers(g) ==
    LET zeros_f32 == [i \in 0..(total_pixels - 1) |-> 0]
        zeros_vec4 == [i \in 0..(total_pixels - 1) |-> <<0, 0, 0, 0>>]
    IN  [mass |-> <<g.mass_data, zeros_f32>>,
         energy |-> <<g.energy_data, zeros_f32>>,
         genome_a |-> <<g.genome_a_data, zeros_vec4>>,
         genome_b |-> <<g.genome_b_data, zeros_f32>>,
         resource_map |-> g.resource_data]

\* config.rs:109-115
effective_seed(fixed, value, s) == IF fixed THEN Some(value) ELSE s

\* the states `rand::thread_rng()` may be in (world.rs:130)
thread_rng == 0..(RngMod - 1)

\* a seed that leaves the generator's lowest bit open
seed_ignored(s) ==
    IF s.some THEN {s.value % RngMod, (s.value + 1) % RngMod} ELSE thread_rng

\* the generator states WorldState::new_with_seed starts from: the one the
\* seed fixes, or those of thread_rng when there is no seed
seeded_rng(s) == IF s.some THEN {s.value % RngMod} ELSE thread_rng

\* ---------------------------------------------------------- SpecWorldGen
\* the seeds entered in the "Seed:" field (lab_ui.rs:297); 42 is the default
Seeds == {7, 42}

\* the arrays of the generator as one value
Locals ==
    [rng |-> rng, mass_data |-> mass_data, energy_data |-> energy_data,
     genome_a_data |-> genome_a_data, genome_b_data |-> genome_b_data,
     resource_data |-> resource_data, stamps |-> stamps, nests |-> nests]

SetLocals(g) ==
    /\ rng' = g.rng
    /\ mass_data' = g.mass_data
    /\ energy_data' = g.energy_data
    /\ genome_a_data' = g.genome_a_data
    /\ genome_b_data' = g.genome_b_data
    /\ resource_data' = g.resource_data
    /\ stamps' = g.stamps
    /\ nests' = g.nests

\* the five arrays of generation 0
World(g) ==
    [mass |-> g.mass_data, energy |-> g.energy_data,
     genome_a |-> g.genome_a_data, genome_b |-> g.genome_b_data,
     resource |-> g.resource_data]

InitWorldGen ==
    /\ driver = "worldgen"
    /\ pc = "construct"
    /\ result = "running"
    /\ InitWorld
    /\ InitUi
    /\ diag_interval = 1
    /\ frames = 0
    /\ load_state_path = "none"
    /\ save_state_path = FALSE
    /\ InitCodecIdle
    /\ InitReadbackIdle
    /\ InitPixelIdle
    /\ InitMetricsIdle
    /\ seed = None                    \* config.rs:100-102
    /\ use_fixed_seed = FALSE
    /\ fixed_seed_value = 42
    /\ rng = 0
    /\ mass_data = << >>
    /\ energy_data = << >>
    /\ genome_a_data = << >>
    /\ genome_b_data = << >>
    /\ resource_data = << >>
    /\ left = 0
    /\ stamps = << >>
    /\ nests = {}
    /\ buffers = NoBuffers
    /\ world_seed = None
    /\ first_world = << >>
    /\ restarts = 0

WorldGenUnchanged == <<driver, result, world_vars, ui_vars, cfg_vars, redraw_vars,
                       codec_vars, readback_vars, pixel_vars, metrics_vars>>

\* app.rs:118 (main.rs:529, headless.rs:58): WorldState::new, up to the
\* first pattern (world.rs:129-139)
WorldNew ==
    /\ driver = "worldgen" /\ pc = "construct"
    /\ \E s \in thread_rng : SetLocals(NewLocals(s))
    /\ world_seed' = None
    /\ left' = PatternCount
    /\ pc' = "clusters"
    /\ UNCHANGED <<WorldGenUnchanged, seed_vars, buffers, first_world,
                   restarts>>

\* one pass of a `for _ in 0..num_...` loop: g is what the arrays become
Place(stage, then, g) ==
    /\ driver = "worldgen" /\ pc = stage
    /\ SetLocals(g)
    /\ left' = IF left > 1 THEN left - 1 ELSE PatternCount
    /\ pc' = IF left > 1 THEN stage ELSE then
    /\ UNCHANGED <<WorldGenUnchanged, seed_vars, buffers, world_seed,
                   first_world, restarts>>

PlaceCluster == Place("clusters", "rings", cluster(Locals))
PlaceRing == Place("rings", "lines", ring(Locals))
PlaceLine == Place("lines", "spirals", line(Locals))
PlaceSpiral == Place("spirals", "patches", spiral(Locals))
PlacePatch == Place("patches", "predators", patch(Locals))
PlacePredator == Place("predators", "resource_base", predator(Locals))

\* world.rs:361-363
ResourceBase ==
    /\ driver = "worldgen" /\ pc = "resource_base"
    /\ resource_data' = [i \in 0..(total_pixels - 1) |-> 700]
    /\ stamps' = << >>
    /\ pc' = "oases"
    /\ UNCHANGED <<WorldGenUnchanged, seed_vars, rng, mass_data, energy_data,
                   genome_a_data, genome_b_data, left, nests, buffers,
                   world_seed, first_world, restarts>>

PlaceOasis == Place("oases", "deserts", oasis(Locals))
PlaceDesert == Place("deserts", "gradient", desert(Locals))

\* world.rs:400-410
Gradient ==
    /\ driver = "worldgen" /\ pc = "gradient"
    /\ SetLocals(gradient(Locals))
    /\ pc' = "upload"
    /\ UNCHANGED <<WorldGenUnchanged, seed_vars, left, buffers, world_seed,
                   first_world, restarts>>

\* world.rs:411-585: the buffers are created and the WorldState returned
Upload ==
    /\ driver = "worldgen" /\ pc = "upload"
    /\ buffers' = create_buffers(Locals)
    /\ first_world' =
          IF ~world_seed.some THEN first_world
          ELSE IF world_seed.value \in DOMAIN first_world
          THEN [first_world EXCEPT ![world_seed.value].built = @ + 1]
          ELSE first_world @@
               (world_seed.value :> [world |-> World(Locals), built |-> 1])
    /\ pc' = "ready"
    /\ UNCHANGED <<WorldGenUnchanged, seed_vars, new_locals, world_seed,
                   restarts>>

\* lab_ui.rs:293
ToggleFixedSeed ==
    /\ driver = "worldgen" /\ pc = "ready"
    /\ use_fixed_seed' = ~use_fixed_seed
    /\ UNCHANGED <<WorldGenUnchanged, pc, seed, fixed_seed_value, new_locals,
                   buffers, world_seed, first_world, restarts>>

\* lab_ui.rs:294-298
SetFixedSeed(v) ==
    /\ driver = "worldgen" /\ pc = "ready"
    /\ use_fixed_seed
    /\ v # fixed_seed_value
    /\ fixed_seed_value' = v
    /\ UNCHANGED <<WorldGenUnchanged, pc, seed, use_fixed_seed, new_locals,
                   buffers, world_seed, first_world, restarts>>

\* app.rs:479-491: a restart builds the world again with the effective seed
Restart ==
    /\ driver = "worldgen" /\ pc = "ready"
    /\ restarts < MaxRestarts
    /\ LET sd == effective_seed(use_fixed_seed, fixed_seed_value, seed) IN
          /\ \E s \in seeded_rng(sd) : SetLocals(NewLocals(s))
          /\ world_seed' = sd
    /\ left' = PatternCount
    /\ restarts' = restarts + 1
    /\ buffers' = NoBuffers             \* the old world is replaced
    /\ pc' = "clusters"
    /\ UNCHANGED <<WorldGenUnchanged, seed_vars, first_world>>

NextWorldGen ==
    \/ WorldNew
    \/ PlaceCluster \/ PlaceRing \/ PlaceLine \/ PlaceSpiral \/ PlacePatch
    \/ PlacePredator
    \/ ResourceBase \/ PlaceOasis \/ PlaceDesert \/ Gradient
    \/ Upload
    \/ ToggleFixedSeed
    \/ \E v \in Seeds : SetFixedSeed(v)
    \/ Restart

SpecWorldGen == InitWorldGen /\ [][NextWorldGen]_vars

\* ============================================================ diagnostics
\* metrics.rs: the genetics part of SimDiagnostics. f32 values are held in
\* thousandths, like the world generator's.

\* `as u8` on a non-negative f32 held in thousandths: the fraction is dropped
\* and the value saturates at the ends of u8
as_u8(v) == Max(0, Min(2 ^ 8 - 1, as_i32(v)))

\* f32::log2 of a ratio a / b >= 1, in thousandths: the integer part counts
\* the doublings of b that fit in a, the fraction is read off bit by bit by
\* squaring the remaining factor (held in 1/2^14ths)
RECURSIVE log2_int(_, _)
log2_int(a, b) == IF a >= 2 * b THEN 1 + log2_int(a, 2 * b) ELSE 0

RECURSIVE log2_frac(_, _, _)
log2_frac(x, bit, n) ==
    IF n = 0 THEN 0
    ELSE LET sq == (x * x) \div (2 ^ 14)
         IN IF sq >= 2 * (2 ^ 14)
            THEN bit + log2_frac(sq \div 2, bit \div 2, n - 1)
            ELSE log2_frac(sq, bit \div 2, n - 1)

log2_ratio(a, b) ==
    LET n == log2_int(a, b)
        x == (a * (2 ^ 14)) \div (b * (2 ^ n))
    IN n * Unit + (log2_frac(x, 2 ^ 9, 10) * Unit) \div (2 ^ 10)

\* p.log2() for 0 < p <= 1 held in thousandths
log2(p) == -log2_ratio(Unit, p)

\* metrics.rs:289-296, on two (r, mu, sigma, agg) tuples; the squares are in
\* millionths and the root is back in thousandths
genome_distance(a, b) ==
    LET d0 == a[1] \div 16 - b[1] \div 16
        d1 == a[2] - b[2]
        d2 == (a[3] * 10) \div 3 - (b[3] * 10) \div 3
        d3 == a[4] - b[4]
        dr == d0 * d0
        dmu == d1 * d1
        dsigma == d2 * d2
        dagg == d3 * d3
    IN isqrt(dr + dmu + dsigma + dagg)

\* metrics.rs:248-259: the genomes of the cells with mass > 0.05, in cell
\* order. Cell i of the source is element i + 1 here.
RECURSIVE collect_genomes(_, _, _, _)
collect_genomes(genome_a, mass, i, num_pixels) ==
    IF i >= num_pixels THEN << >>
    ELSE LET m == mass[i + 1]
             rest == collect_genomes(genome_a, mass, i + 1, num_pixels)
         IN IF m > 50
            THEN << <<genome_a[i * 4 + 1], genome_a[i * 4 + 2],
                      genome_a[i * 4 + 3], genome_a[i * 4 + 4]>> >> \o rest
            ELSE rest

\* metrics.rs:270-284: the greedy pass over genomes k.. that keeps a genome
\* when it is at least 0.15 away from every genome kept so far, and stops
\* once max_species genomes are kept; the stop is tested after the push
RECURSIVE unique_loop(_, _, _, _)
unique_loop(genomes, k, unique_genomes, max_species) ==
    IF k > Len(genomes) THEN unique_genomes
    ELSE LET genome == genomes[k]
             is_unique == \A e \in 1..Len(unique_genomes) :
                              ~(genome_distance(genome, unique_genomes[e]) < 150)
             pushed == IF is_unique THEN Append(unique_genomes, genome)
                       ELSE unique_genomes
         IN IF Len(pushed) >= max_species THEN pushed
            ELSE unique_loop(genomes, k + 1, pushed, max_species)

\* metrics.rs:239-287
detect_species(genome_a, mass, max_species) ==
    IF Len(genome_a) < 4 \/ Len(mass) = 0 THEN 0
    ELSE LET num_pixels == Len(genome_a) \div 4
             genomes == collect_genomes(genome_a, mass, 0, num_pixels)
         IN IF Len(genomes) < max_species THEN Len(genomes)
            ELSE Len(unique_loop(genomes, 1, << >>, max_species))

\* metrics.rs:203-210: the (r_bin, mu_bin, sigma_bin) key of cell i
bin_key(genome_a, i, bins) ==
    LET r == genome_a[i * 4 + 1]
        mu == genome_a[i * 4 + 2]
        sigma == genome_a[i * 4 + 3]
        top == (bins - 1) * Unit
        r_bin == as_u8(Min((r * bins) \div 16, top))
        mu_bin == as_u8(Min(mu * bins, top))
        sigma_bin == as_u8(Min(((sigma * 10) \div 3) * bins, top))
    IN <<r_bin, mu_bin, sigma_bin>>

\* histogram.entry(key).or_insert(0.0) += m
entry_add(histogram, key, m) ==
    IF key \in DOMAIN histogram
    THEN [histogram EXCEPT ![key] = @ + m]
    ELSE histogram @@ (key :> m)

\* a histogram that adds one per cell in place of the cell's mass
RECURSIVE bin_loop_per_cell(_, _, _, _, _, _)
bin_loop_per_cell(genome_a, mass, bins, i, num_pixels, acc) ==
    IF i >= num_pixels THEN acc
    ELSE LET m == mass[i + 1]
         IN IF m < 10
            THEN bin_loop_per_cell(genome_a, mass, bins, i + 1, num_pixels, acc)
            ELSE bin_loop_per_cell(genome_a, mass, bins, i + 1, num_pixels,
                     [histogram |-> entry_add(acc.histogram,
                                        bin_key(genome_a, i, bins), Unit),
                      total_mass |-> acc.total_mass + Unit])

\* metrics.rs:197-215: cells below 0.01 are skipped, the others add their
\* mass to their bin and to the total
RECURSIVE bin_loop(_, _, _, _, _, _)
bin_loop(genome_a, mass, bins, i, num_pixels, acc) ==
    IF i >= num_pixels THEN acc
    ELSE LET m == mass[i + 1]
         IN IF m < 10
            THEN bin_loop(genome_a, mass, bins, i + 1, num_pixels, acc)
            ELSE bin_loop(genome_a, mass, bins, i + 1, num_pixels,
                     [histogram |-> entry_add(acc.histogram,
                                        bin_key(genome_a, i, bins), m),
                      total_mass |-> acc.total_mass + m])

\* metrics.rs:222-228: the sum of -p * log2(p) over the bins in keys; the
\* test p > 1e-9 passes for every p that is not zero in thousandths
RECURSIVE shannon(_, _, _)
shannon(histogram, keys, total_mass) ==
    IF keys = {} THEN 0
    ELSE LET key == CHOOSE k \in keys : TRUE
             count == histogram[key]
             p == (count * Unit) \div total_mass
             rest == shannon(histogram, keys \ {key}, total_mass)
         IN IF p > 0 THEN rest - (p * log2(p)) \div Unit ELSE rest

\* metrics.rs:187-231
compute_genetic_entropy(genome_a, mass, bins) ==
    IF Len(genome_a) < 4 \/ Len(mass) = 0 THEN 0
    ELSE LET num_pixels == Len(genome_a) \div 4
             acc == bin_loop(genome_a, mass, bins, 0, num_pixels,
                             [histogram |-> << >>, total_mass |-> 0])
         IN IF acc.total_mass < 1 THEN 0
            ELSE shannon(acc.histogram, DOMAIN acc.histogram, acc.total_mass)

\* metrics.rs:42-68, 93-97: the population counts and the genetics of
\* from_snapshot; the diagnostics fix bins at 10 and max_species at 20
RECURSIVE sum_mass(_, _)
sum_mass(mass, n) == IF n = 0 THEN 0 ELSE mass[n] + sum_mass(mass, n - 1)

from_snapshot(s) ==
    LET total_mass == sum_mass(s.mass, Len(s.mass))
        live_pixels == Cardinality({i \in 1..Len(s.mass) : s.mass[i] > 10})
    IN
    [total_mass |-> total_mass,
     live_pixels |-> live_pixels,
     avg_mass_live |-> IF live_pixels > 0 THEN total_mass \div live_pixels
                       ELSE 0,
     genetic_entropy |-> compute_genetic_entropy(s.genome_a, s.mass, 10),
     species_count |-> detect_species(s.genome_a, s.mass, 20)]

\* ------------------------------------------------ diagnostics on samples
\* the genomes tried: the default genome, the default with another
\* aggressivity (same bin, another species), a near copy of the default
\* (same bin, same species), and two distant genomes in two other bins
GenomeSamples ==
    { <<5 * Unit, Unit \div 2, 150, 0>>,
      <<5 * Unit, Unit \div 2, 150, 600>>,
      <<5100, 510, 150, 0>>,
      <<9 * Unit, Unit \div 4, 75, 300>>,
      <<3 * Unit, 750, 45, 0>> }

\* the cells tried: an empty cell, every sample genome at a mass between
\* the two liveness thresholds (0.03), at 0.25 and at 0.5, and two genomes
\* at a mass of exactly 0.01
CellSamples ==
    { [mass |-> 0, genome |-> <<5 * Unit, Unit \div 2, 150, 0>>] }
    \cup { [mass |-> m, genome |-> g] : m \in {30, 250, 500}, g \in GenomeSamples }
    \cup { [mass |-> 10, genome |-> g] :
               g \in { <<5 * Unit, Unit \div 2, 150, 0>>,
                       <<9 * Unit, Unit \div 4, 75, 300>> } }

\* the snapshot whose cells are the given sequence: mass per cell, genome_a
\* flat with four values per cell
SnapshotOf(cells) ==
    [mass |-> [i \in 1..Len(cells) |-> cells[i].mass],
     genome_a |-> [j \in 1..(4 * Len(cells)) |->
                      cells[((j - 1) \div 4) + 1].genome[((j - 1) % 4) + 1]]]

InitMetrics ==
    /\ driver = "metrics"
    /\ pc = "input"
    /\ result = "running"
    /\ InitWorld
    /\ InitUi
    /\ diag_interval = 1
    /\ frames = 0
    /\ load_state_path = "none"
    /\ save_state_path = FALSE
    /\ InitCodecIdle
    /\ InitReadbackIdle
    /\ InitPixelIdle
    /\ InitWorldGenIdle
    /\ \E n \in 0..MaxCells :
           \E cells \in [1..n -> CellSamples] : diag_snap = SnapshotOf(cells)
    /\ species = NoSpecies
    /\ entropy = -1
    /\ diag = NoDiag

MetricsUnchanged == <<driver, result, world_vars, ui_vars, cfg_vars, redraw_vars,
                      codec_vars, readback_vars, pixel_vars, worldgen_vars,
                      diag_snap>>

\* detect_species called with a maximum of 0..MaxSpecies
DetectSpecies ==
    /\ driver = "metrics" /\ pc = "input"
    /\ \E max_species \in 0..MaxSpecies :
           species' = [max |-> max_species,
                       count |-> detect_species(diag_snap.genome_a,
                                                diag_snap.mass, max_species)]
    /\ pc' = "species"
    /\ UNCHANGED <<MetricsUnchanged, entropy, diag>>

\* compute_genetic_entropy called with the diagnostics' ten bins
ComputeEntropy ==
    /\ driver = "metrics" /\ pc = "input"
    /\ entropy' = compute_genetic_entropy(diag_snap.genome_a, diag_snap.mass, 10)
    /\ pc' = "entropy"
    /\ UNCHANGED <<MetricsUnchanged, species, diag>>

\* SimDiagnostics::from_snapshot
FromSnapshot ==
    /\ driver = "metrics" /\ pc = "input"
    /\ diag' = from_snapshot(diag_snap)
    /\ pc' = "diag"
    /\ UNCHANGED <<MetricsUnchanged, species, entropy>>

NextMetrics ==
    \/ DetectSpecies
    \/ ComputeEntropy
    \/ FromSnapshot

SpecMetrics == InitMetrics /\ [][NextMetrics]_vars

\* ================================================================= claims
SubmitPcs == {"gui_submit", "hl_submit", "lg_submit"}
SwapPcs == {"gui_swap", "hl_swap", "lg_swap"}
ReadbackPcs == {"gui_snapshot", "gui_diag", "hl_save"}

\* C1: one swap() makes cur() the value next() returned before the call; any
\* even number of swap() calls brings cur() back to what it was, from either
\* parity; cur() and next() are always the two distinct members of {0,1}.
C1_SwapParity ==
    /\ Len(cur_hist) = frame + 1
    /\ cur_hist[Len(cur_hist)] = cur(current)
    /\ \A i \in 1..(Len(cur_hist) - 1) : cur_hist[i + 1] = next(cur_hist[i])
    /\ \A i, j \in 1..Len(cur_hist) :
          (j - i) % 2 = 0 => cur_hist[j] = cur_hist[i]
    /\ cur(current) # next(current)
    /\ {cur(current), next(current)} = {0, 1}

\* four swaps done: both parities have been left once and come back to twice
C1_Witness == frame = 4 /\ cur_hist = <<0, 1, 0, 1, 0>>

\* C2: in every driver a step records velocity, evolution, resources,
\* sum_mass, normalize in that order on one encoder, submits it, and then
\* calls swap() once; swap() only ever follows a submission, and the step
\* counter equals the number of submitted steps.
C2_StepOrder ==
    /\ pc \in SubmitPcs => PassNames(ComputePasses(enc)) = FivePasses
    /\ submitted > 0 => PassNames(ComputePasses(last_step.passes)) = FivePasses
    /\ pc \in SwapPcs => submitted = frame + 1
    /\ pc \notin SwapPcs => submitted = frame

C2_Witness ==
    /\ driver = "gui" /\ pc = "gui_render" /\ simulation_speed = 2 /\ ~paused
    /\ frame = 3 /\ submitted = 3

\* C3: the host write that zeroes MassSum is staged before every step's
\* submission, the 2nd..Nth step of a multi-step redraw included, so every
\* reduction starts from zero and MassSum never holds two steps' totals.
C3_MassSumReset ==
    /\ pc \in SubmitPcs => mass_sum_write
    /\ submitted > 0 => last_step.zeroed /\ last_step.sum_start = 0
    /\ mass_sum <= 1

\* the second step of a two-step redraw has been submitted
C3_Witness ==
    /\ driver = "gui" /\ pc = "gui_swap" /\ ~paused /\ simulation_speed = 2
    /\ steps_left = 1 /\ submitted >= 2 /\ last_step.sum_start = 0

\* C4: with mass_normalization_enabled false a step issues no normalize
\* dispatch.
C4_NormalizeOnlyIfEnabled ==
    /\ (pc \in SubmitPcs /\ ~mass_normalization_enabled)
          => \A i \in DOMAIN enc : enc[i].pass # "normalize"
    /\ (submitted > 0 /\ ~last_step.norm_enabled)
          => \A i \in DOMAIN last_step.passes :
                last_step.passes[i].pass # "normalize"

\* C5: every readback_snapshot call copies the four double-buffered fields
\* from buffer cur() and is made between steps: nothing is being encoded, as
\* many swaps as submissions have happened, and each buffer read holds the
\* generation of the last completed step (generation 0 before the first).
C5_ReadbackBetweenSteps ==
    /\ pc \in ReadbackPcs => enc = << >> /\ submitted = frame
    /\ last_readback.kind # "none" =>
          /\ \A f \in Fields : last_readback.copies[f] = last_readback.cur
          /\ last_readback.submitted = last_readback.frame
          /\ \A f \in Fields : last_readback.gens[f] = last_readback.frame

\* a diagnostics readback at odd parity, and one of generation 0
C5_Witness ==
    /\ last_readback.kind = "diag" /\ last_readback.cur = 1
    /\ last_readback.frame = 3 /\ last_readback.some

\* C6: load_snapshot of the file save_snapshot wrote succeeds and returns the
\* five arrays bit for bit.
C6_RoundTrip ==
    (pc = "loaded" /\ faults = {}) =>
        /\ loaded.status = "Ok"
        /\ loaded.snapshot = snap

\* arrays of different lengths, a NaN and a negative zero among the values
C6_Witness ==
    /\ pc = "loaded" /\ faults = {} /\ loaded.status = "Ok"
    /\ Len(snap.mass) = 2 /\ Len(snap.energy) = 0 /\ Len(snap.genome_a) = 2
    /\ \E i \in 1..2 : snap.mass[i] = F32(0, 255, 4194305)
    /\ \E i \in 1..2 : snap.genome_a[i] = F32(1, 0, 0)

\* the unsigned value of little-endian bytes
RECURSIVE LEValue(_)
LEValue(b) == IF b = << >> THEN 0 ELSE Head(b) + 256 * LEValue(Tail(b))

\* bytes off+1.. of b hold array a: its count as a u64, then each element's
\* 32 bits, least significant byte first
HoldsArray(b, off, a) ==
    /\ Len(b) >= off + 8 + 4 * Len(a)
    /\ LEValue(SubSeq(b, off + 1, off + 4)) = Len(a)
    /\ SubSeq(b, off + 5, off + 8) = <<0, 0, 0, 0>>
    /\ \A j \in 1..Len(a) :
          LET e == SubSeq(b, off + 8 + 4 * (j - 1) + 1, off + 8 + 4 * j) IN
          /\ LEValue(SubSeq(e, 1, 2)) = a[j].mant % 65536
          /\ LEValue(SubSeq(e, 3, 4)) =
                a[j].sign * 32768 + a[j].exp * 128 + (a[j].mant \div 65536)

\* C7: the file is "EVOSNP01", width and height as u32 LE, then mass, energy,
\* genome_a, genome_b, resource, each as a u64 LE count followed by LE f32s,
\* and nothing else; load_snapshot hands the arrays back in that order.
C7_Layout ==
    (pc \in {"saved", "loaded"} /\ faults = {}) =>
        LET o1 == 16
            o2 == o1 + 8 + 4 * Len(snap.mass)
            o3 == o2 + 8 + 4 * Len(snap.energy)
            o4 == o3 + 8 + 4 * Len(snap.genome_a)
            o5 == o4 + 8 + 4 * Len(snap.genome_b)
            end == o5 + 8 + 4 * Len(snap.resource)
        IN  /\ Len(file) = end
            /\ SubSeq(file, 1, 8) = <<69, 86, 79, 83, 78, 80, 48, 49>>
            /\ LEValue(SubSeq(file, 9, 12)) = WORLD_WIDTH
            /\ LEValue(SubSeq(file, 13, 16)) = WORLD_HEIGHT
            /\ HoldsArray(file, o1, snap.mass)
            /\ HoldsArray(file, o2, snap.energy)
            /\ HoldsArray(file, o3, snap.genome_a)
            /\ HoldsArray(file, o4, snap.genome_b)
            /\ HoldsArray(file, o5, snap.resource)
            /\ pc = "loaded" =>
                  /\ Len(loaded.snapshot.mass) = LEValue(SubSeq(file, o1 + 1, o1 + 4))
                  /\ Len(loaded.snapshot.energy) = LEValue(SubSeq(file, o2 + 1, o2 + 4))
                  /\ Len(loaded.snapshot.genome_a) = LEValue(SubSeq(file, o3 + 1, o3 + 4))
                  /\ Len(loaded.snapshot.genome_b) = LEValue(SubSeq(file, o4 + 1, o4 + 4))
                  /\ Len(loaded.snapshot.resource) = LEValue(SubSeq(file, o5 + 1, o5 + 4))

\* five arrays of five different shapes, written and read back
C7_Witness ==
    /\ pc = "loaded" /\ faults = {}
    /\ Len(snap.mass) = 1 /\ Len(snap.energy) = 2 /\ Len(snap.genome_a) = 0
    /\ Len(snap.genome_b) = 2 /\ Len(snap.resource) = 1
    /\ snap.energy[1] # snap.energy[2]

\* the file ends before array k, or one of the arrays after it, is complete
RECURSIVE EndsEarly(_, _, _)
EndsEarly(b, pos, k) ==
    IF k = 0 THEN FALSE
    ELSE IF pos + 8 > Len(b) THEN TRUE
    ELSE LET len == SubSeq(b, pos + 1, pos + 8) IN
         IF \E i \in 4..8 : len[i] # 0 THEN TRUE
         ELSE LET n == LEValue(SubSeq(len, 1, 3)) IN
              IF pos + 8 + 4 * n > Len(b) THEN TRUE
              ELSE EndsEarly(b, pos + 8 + 4 * n, k - 1)

BadMagic(b) == Len(b) >= 8 /\ SubSeq(b, 1, 8) # <<69, 86, 79, 83, 78, 80, 48, 49>>

BadDims(b) ==
    /\ Len(b) >= 16
    /\ \/ LEValue(SubSeq(b, 9, 12)) # WORLD_WIDTH
       \/ LEValue(SubSeq(b, 13, 16)) # WORLD_HEIGHT

\* C8: load_snapshot returns Err, never a snapshot, for a faulty file: a bad
\* magic tag (reported first), wrong dimensions (reported before any array
\* is read), a file that ends before the header or a declared array is
\* complete.
C8_FaultsAreErrors ==
    pc = "loaded" =>
        /\ BadMagic(file) => loaded = LoadErr("invalid snapshot magic")
        /\ (~BadMagic(file) /\ BadDims(file))
              => loaded = LoadErr("snapshot dimensions incompatible")
        /\ (Len(file) < 16 \/ EndsEarly(file, 16, 5)) => loaded.status = "Err"
        /\ faults # {} => loaded.status # "Ok"

\* C9: after a load that failed on the dimensions, every caller goes on with
\* the fresh world.
C9_DimMismatchFallsBack ==
    (pc # "start" /\ load_state_path = "dim_mismatch") =>
        /\ LoadAt(load_state_path) = LoadErr("snapshot dimensions incompatible")
        /\ result \notin {"Err", "Panic"}
        /\ world_source = "fresh"

AllStaging == {StagingOrder[i] : i \in 1..5}

\* C10: readback_snapshot returns Some only when all five mappings succeeded
\* and each buffer held its expected count; when any mapping fails or its
\* signal is never delivered it returns None; what it returns holds all five
\* fields or none.
C10_AllOrNothing ==
    pc = "returned" =>
        /\ rb_result.some <=>
              \A i \in 1..5 :
                 /\ rb_outcome[i] = "ok"
                 /\ staging_floats(StagingOrder[i]) >= staging_count(StagingOrder[i])
        /\ rb_result.some => rb_result.fields = AllStaging
        /\ ~rb_result.some => rb_result.fields = {}

\* the first three buffers map, the fourth fails
C10_Witness ==
    /\ pc = "returned" /\ ~rb_result.some
    /\ rb_outcome = <<"ok", "ok", "ok", "map_err", "ok">>

\* ---------------------------------------------------------------------------
\* C11: whenever readback_snapshot has returned None, in the GUI snapshot
\* save, the GUI periodic diagnostics and the headless final save alike, the
\* driver goes on or finishes normally: it returns no error and does not
\* terminate abnormally.
C11_ReadbackFailureNotFatal ==
    (last_readback.kind # "none" /\ ~last_readback.some)
        => result \in {"running", "Ok"}

\* ---------------------------------------------------------------------------
\* C12: toroidal addressing. For all i32 coordinates x, y, negative ones
\* included, pixel_idx(x + W, y) = pixel_idx(x, y) and pixel_idx(x, y + H) =
\* pixel_idx(x, y), and every result lies in 0 .. W*H - 1.
C12_Toroidal ==
    (driver = "pixel" /\ pc = "returned") =>
        /\ idx.shifted_x = idx.at
        /\ idx.shifted_y = idx.at
        /\ \A v \in {idx.at, idx.shifted_x, idx.shifted_y} :
              v \in 0..(total_pixels - 1)

\* a negative coordinate pair one step outside the grid wraps to its far corner
C12_Witness ==
    /\ driver = "pixel" /\ pc = "returned"
    /\ px = -1 /\ py = -1
    /\ idx.at = total_pixels - 1

\* ---------------------------------------------------------------------------
\* C13: mass clamp in world generation. After every stamp, whatever the
\* number and order of the stamps that fell on the same cell, the cell's mass
\* is in [0, 1]; every contribution the six pattern generators hand to stamp
\* is non-negative, so a stamp never lowers the mass and never takes it
\* above 1.
C13_MassClamp ==
    driver = "worldgen" =>
        /\ \A k \in 1..Len(stamps) :
              /\ stamps[k].m >= 0
              /\ stamps[k].before <= stamps[k].after
              /\ stamps[k].after \in 0..Unit
        /\ \A i \in DOMAIN mass_data : mass_data[i] \in 0..Unit

\* a pattern instance whose stamps fell twice on one cell, the later one
\* cut off at 1
C13_Witness ==
    /\ driver = "worldgen"
    /\ \E j, k \in 1..Len(stamps) :
          /\ j < k
          /\ stamps[j].idx = stamps[k].idx
          /\ stamps[k].before > 0
          /\ stamps[k].before + stamps[k].m > Unit
          /\ stamps[k].after = Unit

\* ---------------------------------------------------------------------------
\* C14: in a freshly generated world every cell, stamped or not and with
\* zero mass or not, carries a GenomeA whose sigma component is strictly
\* positive.
C14_SigmaPositive ==
    (driver = "worldgen" /\ pc = "ready") =>
        \A i \in 0..(total_pixels - 1) :
            buffers.genome_a[cur(current) + 1][i][3] > 0

\* a finished world with a cell no pattern touched and a cell that was stamped
C14_Witness ==
    /\ driver = "worldgen" /\ pc = "ready"
    /\ \E i, j \in 0..(total_pixels - 1) :
          /\ buffers.mass[1][i] = 0
          /\ buffers.genome_a[1][i] = <<5 * Unit, 500, 150, 0>>
          /\ buffers.genome_b[1][i] = 100
          /\ buffers.mass[1][j] > 0
          /\ buffers.genome_a[1][j] # <<5 * Unit, 500, 150, 0>>

SignificantCells == {i \in 1..Len(diag_snap.mass) : diag_snap.mass[i] > 50}
GenomeOfCell(i) == <<diag_snap.genome_a[4 * i - 3], diag_snap.genome_a[4 * i - 2],
                     diag_snap.genome_a[4 * i - 1], diag_snap.genome_a[4 * i]>>

\* C16: detect_species never returns more than max_species, whatever the
\* maximum (0 and 1 included) and whatever the input, and it returns 0 when
\* no cell has mass above 0.05.
C16_SpeciesBounded ==
    (driver = "metrics" /\ pc = "species") =>
        /\ species.count <= species.max
        /\ (SignificantCells = {} => species.count = 0)

\* C17: when at least one cell has mass above 0.05 and all such cells carry
\* the same genome, the species count of the diagnostics is 1, however many
\* cells the cluster has.
C17_OneGenomeOneSpecies ==
    (/\ driver = "metrics" /\ pc = "diag"
     /\ SignificantCells # {}
     /\ \A i, j \in SignificantCells : GenomeOfCell(i) = GenomeOfCell(j))
        => diag.species_count = 1

\* the cells compute_genetic_entropy counts (mass not below 0.01), the bins
\* they fall in with the diagnostics' ten bins, and the mass in a bin
EntropyCells == {i \in 1..Len(diag_snap.mass) : diag_snap.mass[i] >= 10}
CellBin(i) ==
    <<as_u8(Min((diag_snap.genome_a[4 * i - 3] * 10) \div 16, 9 * Unit)),
      as_u8(Min(diag_snap.genome_a[4 * i - 2] * 10, 9 * Unit)),
      as_u8(Min(((diag_snap.genome_a[4 * i - 1] * 10) \div 3) * 10, 9 * Unit))>>
EntropyBins == {CellBin(i) : i \in EntropyCells}
RECURSIVE MassOf(_)
MassOf(cells) ==
    IF cells = {} THEN 0
    ELSE LET i == CHOOSE c \in cells : TRUE
         IN diag_snap.mass[i] + MassOf(cells \ {i})
BinMass(b) == MassOf({i \in EntropyCells : CellBin(i) = b})
EvenSplit == \A a, b \in EntropyBins : BinMass(a) = BinMass(b)
Near(a, b) == a - b <= Unit \div 200 /\ b - a <= Unit \div 200

StepPasses(name) ==
    {last_step.passes[i] : i \in {j \in DOMAIN last_step.passes :
                                      last_step.passes[j].pass = name}}

\* C19: in a step taken at parity cur, for both parities, the velocity and
\* evolution passes read every double-buffered field they use from buffer
\* cur, the evolution pass writes mass, energy, genome_a and genome_b to
\* buffer 1 - cur, and no buffer is both input and output of that pass.
C19_EvolutionReadsCurWritesNext ==
    submitted > 0 =>
        /\ StepPasses("velocity") # {} /\ StepPasses("evolution") # {}
        /\ \A p \in StepPasses("velocity") :
               /\ p.bg = last_step.cur
               /\ \A f \in DOMAIN p.bind.read : p.bind.read[f] = last_step.cur
        /\ \A p \in StepPasses("evolution") :
               /\ p.bg = last_step.cur
               /\ DOMAIN p.bind.read = Fields /\ DOMAIN p.bind.write = Fields
               /\ \A f \in Fields : p.bind.read[f] = last_step.cur
               /\ \A f \in Fields : p.bind.write[f] = 1 - last_step.cur
               /\ {<<f, p.bind.read[f]>> : f \in Fields}
                      \cap {<<f, p.bind.write[f]>> : f \in Fields} = {}

\* a step at parity 1 has been submitted after a step at parity 0
C19_Witness ==
    /\ submitted >= 2
    /\ last_step.cur = 1
    /\ \E p \in StepPasses("evolution") : p.bind.write["mass"] = 0

\* C20: in a step taken at parity cur the resource pass reads Mass 1 - cur,
\* the mass-sum and normalize passes work on Mass 1 - cur, and none of the
\* three is bound to Mass cur.
C20_PostPassesUseNextMass ==
    submitted > 0 =>
        /\ StepPasses("resources") # {}
        /\ StepPasses("sum_mass") # {}
        /\ \A p \in StepPasses("resources") :
               p.bg = last_step.cur /\ p.bind.read["mass"] = 1 - last_step.cur
        /\ \A p \in StepPasses("sum_mass") \cup StepPasses("normalize") :
               p.bg = last_step.cur /\ p.bind.mass = 1 - last_step.cur

\* a step at parity 1 has been submitted whose resource, mass-sum and
\* normalize passes are bound to Mass 0
C20_Witness ==
    /\ submitted >= 2
    /\ last_step.cur = 1
    /\ \E p \in StepPasses("resources") : p.bind.read["mass"] = 0
    /\ \E p \in StepPasses("normalize") : p.bind.mass = 0

\* the evolution passes of a submitted step
EvolutionOf(step) ==
    {step.passes[i] : i \in {j \in DOMAIN step.passes :
                                step.passes[j].pass = "evolution"}}

\* C21: when a world's step k + 1 is submitted after its step k, with no
\* matter how little in between (the GUI loop at speed > 1, the headless
\* loop), step k + 1 is encoded with the complement of step k's parity, its
\* evolution pass reads exactly the buffers step k's evolution pass wrote,
\* and the frame index uploaded for it is one more than step k's.
C21_BackToBack ==
    [][(submitted > 0 /\ submitted' = submitted + 1) =>
          /\ last_step'.cur = 1 - last_step.cur
          /\ last_step'.uniform_frame = last_step.uniform_frame + 1
          /\ EvolutionOf(last_step') # {}
          /\ \A p \in EvolutionOf(last_step') : \A q \in EvolutionOf(last_step) :
                 p.bind.read = q.bind.write]_vars

\* the second step of one GUI redraw at speed 2 has been submitted
C21_Witness ==
    /\ driver = "gui" /\ pc = "gui_swap" /\ ~paused
    /\ simulation_speed = 2 /\ steps_left = 1
    /\ submitted >= 2
    /\ last_step.uniform_frame = frame
    /\ last_step.cur = current

\* C22: the render pass of a GUI redraw binds Mass, Energy and GenomeA of
\* physical buffer world.cur(), whatever the number of steps the redraw did
\* (none included), and so shows the newest generation; it never binds a
\* fixed index or buffer 1 - cur().
C22_RenderReadsCur ==
    (driver = "gui" /\ last_render # NoRender) =>
        /\ DOMAIN last_render.read = {"mass", "energy", "genome_a"}
        /\ \A f \in DOMAIN last_render.read :
               last_render.read[f] = cur(last_render.cur)
        /\ pc = "gui_snapshot" =>
               \A f \in DOMAIN last_render.read :
                   /\ last_render.cur = current
                   /\ gen[f][last_render.read[f]] = frame
                   /\ gen[f][last_render.read[f]] > gen[f][1 - last_render.read[f]]

\* a paused redraw of a world at parity 1 has rendered from buffer 1
C22_Witness ==
    /\ driver = "gui" /\ pc = "gui_snapshot"
    /\ paused /\ ~step_requested
    /\ current = 1 /\ frame >= 1
    /\ last_render.bg = 0
    /\ last_render.read["mass"] = 1

\* the step counter values an unpaused redraw ending at frame went through
StepsOfRedraw == (frame - simulation_speed + 1)..frame

\* C23: while unpaused, whenever the steps of a redraw reach or pass a
\* positive multiple of diag_interval, that redraw performs the diagnostics
\* readback, whatever the speed and however speed and interval were changed.
C23_DiagEveryN ==
    [][(/\ driver = "gui" /\ pc = "gui_diag" /\ pc' = "gui_idle"
        /\ ~paused
        /\ \E m \in StepsOfRedraw : m > 0 /\ m % diag_interval = 0)
          => (last_readback'.kind = "diag" /\ last_readback'.frame = frame)]_vars

\* the cells from_snapshot counts as live (mass above 0.01), and what
\* compute_genetic_entropy put in its histogram for the snapshot
LiveCells == {i \in 1..Len(diag_snap.mass) : diag_snap.mass[i] > 10}
Histogram ==
    bin_loop(diag_snap.genome_a, diag_snap.mass, 10, 0,
             Len(diag_snap.genome_a) \div 4,
             [histogram |-> << >>, total_mass |-> 0])

\* C24: the cells that add mass to the entropy histogram are exactly the
\* cells with mass above 0.01, the cells from_snapshot counts as live; a cell
\* with mass exactly 0.01 adds nothing.
C24_DeadCellsExcluded ==
    (driver = "metrics" /\ pc = "diag") =>
        /\ diag.live_pixels = Cardinality(LiveCells)
        /\ Histogram.total_mass = MassOf(LiveCells)
        /\ DOMAIN Histogram.histogram = {CellBin(i) : i \in LiveCells}

\* C25: avg_mass_live is the mean mass over the live cells, the sum of mass
\* over cells with mass above 0.01 divided by their number, and 0 when there
\* is none; cells with mass at or below 0.01 do not influence it.
C25_AvgMassLive ==
    (driver = "metrics" /\ pc = "diag") =>
        diag.avg_mass_live = IF LiveCells = {} THEN 0
                             ELSE MassOf(LiveCells) \div Cardinality(LiveCells)

\* the stages of WorldState::new that follow the last predator nest
AfterPredators == {"resource_base", "oases", "deserts", "gradient", "upload",
                   "ready"}

\* C26: predator nests are stamped last, so in the generated world every
\* cell inside the disk of a predator nest carries a predator genome
\* (aggressivity at least 0.7) and energy 0.8, whatever other pattern
\* covered the cell before.
C26_NestsNotOverwritten ==
    (driver = "worldgen" /\ pc \in AfterPredators) =>
        /\ nests # {}
        /\ \A i \in nests :
               /\ genome_a_data[i][4] >= 700
               /\ energy_data[i] = 800
        /\ pc = "ready" =>
               \A i \in nests :
                   /\ buffers.genome_a[1][i][4] >= 700
                   /\ buffers.energy[1][i] = 800

\* the last nest has been stamped and one of its cells held mass of an
\* earlier pattern
C26_Witness ==
    /\ driver = "worldgen" /\ pc = "resource_base"
    /\ \E k \in 1..Len(stamps) :
          /\ stamps[k].idx \in nests
          /\ stamps[k].before > 0
          /\ stamps[k].before < stamps[k].after

\* C27: a perturbation request is a one-shot edit between steps. A redraw
\* that starts with perturbation_active set applies the perturbation exactly
\* once, with no encoder open and before any step of the redraw is encoded,
\* and clears the flag; nothing else applies a perturbation, and no step is
\* encoded or submitted while a request is pending.
C27_PerturbationOneShot ==
    [][/\ (pc = "gui_idle" /\ pc' # "gui_idle" /\ perturbation_active) =>
             /\ perturbations'.count = perturbations.count + 1
             /\ ~perturbation_active'
             /\ ~perturbations'.encoder_open
             /\ perturbations'.submitted = submitted'
             /\ perturbations'.frame = frame'
             /\ enc' = << >>
       /\ perturbations' # perturbations =>
             (pc = "gui_idle" /\ pc' # "gui_idle" /\ perturbation_active)
       /\ ((enc' # enc /\ enc' # << >>) \/ submitted' = submitted + 1)
             => ~perturbation_active
      ]_vars

\* a redraw has applied the second perturbation of the run to a world that
\* had already stepped, and then ran a step of its own
C27_Witness ==
    /\ driver = "gui" /\ pc = "gui_swap"
    /\ perturbations.count = 2
    /\ ~perturbation_active
    /\ perturbations.submitted >= 1
    /\ submitted = perturbations.submitted + 1

\* every pass recorded or rendered is bound to the buffers of the world
\* the application holds
BoundToLiveWorld ==
    /\ pipelines_world = world_id
    /\ \A i \in DOMAIN enc : enc[i].world = world_id
    /\ \A i \in DOMAIN last_step.passes : last_step.passes[i].world = world_id
    /\ last_render # NoRender => last_render.world = world_id

\* C28: a redraw that handles restart_requested replaces the world by a new
\* generation-0 world with step counter 0 and parity 0, rebuilds the bind
\* groups over the new world's buffers before any step or render pass of
\* the redraw is encoded, discards the last diagnostics and clears the
\* request; no pass is ever encoded with bind groups of a replaced world.
C28_RestartReplacesWorld ==
    [][/\ (driver = "gui" /\ pc = "gui_idle" /\ pc' # "gui_idle"
           /\ restart_requested) =>
             /\ world_id' # world_id
             /\ frame' = 0 /\ current' = 0 /\ gen' = NewGen
             /\ submitted' = 0 /\ enc' = << >>
             /\ last_step' = NoStep /\ last_render' = NoRender
             /\ pipelines_world' = world_id'
             /\ ~last_diag'
             /\ ~restart_requested'
       /\ BoundToLiveWorld'
      ]_vars

\* after a restart, a step of the new world has been submitted and rendered
\* with the bind groups rebuilt for it
C28_Witness ==
    /\ driver = "gui" /\ pc = "gui_snapshot"
    /\ world_id = 1
    /\ submitted >= 1
    /\ \A i \in DOMAIN last_step.passes : last_step.passes[i].world = 1
    /\ last_render.world = 1

\* the positions of a redraw inside its step loop
GuiStepping == {"gui_update", "gui_encode", "gui_submit", "gui_swap"}

\* C29: while paused, a GUI redraw does one step when step_requested is set
\* and none otherwise: with no request no compute pass is encoded and parity
\* and step counter stay as they are; with a request one step is submitted,
\* swap() is called once and step_requested is false afterwards.
C29_PausedStepping ==
    [][(driver = "gui" /\ paused) =>
         /\ (pc = "gui_idle" /\ pc' # "gui_idle") =>
               /\ pc' = IF step_requested THEN "gui_update" ELSE "gui_render"
               /\ enc' = << >>
               /\ ~restart_requested =>
                     /\ frame' = frame /\ current' = current
                     /\ submitted' = submitted
         /\ pc \in GuiStepping => step_requested
         /\ pc = "gui_update" => pc' = "gui_encode"
         /\ pc = "gui_encode" =>
               /\ pc' = "gui_submit"
               /\ PassNames(enc') = PassNames(encode_simulation_passes(cur(current)))
         /\ pc = "gui_submit" =>
               /\ pc' = "gui_swap" /\ submitted' = submitted + 1
         /\ pc = "gui_swap" =>
               /\ pc' = "gui_render"
               /\ current' = 1 - current /\ frame' = frame + 1
               /\ ~step_requested'
         /\ pc # "gui_encode" => (enc' = enc \/ enc' = << >>)
         /\ pc \notin {"gui_idle", "gui_submit"} => submitted' = submitted
         /\ pc \notin {"gui_idle", "gui_swap"} =>
               (frame' = frame /\ current' = current)
      ]_vars

\* a paused redraw has done its single step: the request is cleared and the
\* step it submitted is the only one of the redraw
C29_Witness ==
    /\ driver = "gui" /\ pc = "gui_render" /\ paused
    /\ ~step_requested /\ steps_left = 0
    /\ submitted >= 1 /\ last_step.cur = 1 - cur(current)

\* what a recorded pass wires: its pipeline, the index and the buffers of
\* its bind group, and its workgroup counts
Wiring(ps) ==
    [i \in DOMAIN ps |-> [pass |-> ps[i].pass, bg |-> ps[i].bg,
                          bind |-> ps[i].bind,
                          workgroups |-> ps[i].workgroups]]

\* C30: the GUI, headless and legacy step encoders are equivalent: at the
\* same parity a step of any of the three records the same five compute
\* dispatches, with the same pipelines, the bind group of index cur for
\* each pass and the same workgroup counts.
C30_EncodersEquivalent ==
    /\ \A c \in {0, 1} :
          /\ headless_encode_simulation_passes(c) = encode_simulation_passes(c)
          /\ legacy_encode_compute_passes(c) = encode_simulation_passes(c)
    /\ last_step # NoStep =>
          /\ Wiring(ComputePasses(last_step.passes))
                = encode_simulation_passes(cur(last_step.cur))
          /\ \A i \in DOMAIN last_step.passes :
                last_step.passes[i].pass # "render"
                    => last_step.passes[i].bg = cur(last_step.cur)

\* the headless run has submitted a step at parity 1 whose passes over the
\* grid and over the linear range carry different workgroup counts
C30_Witness ==
    /\ driver = "headless" /\ submitted >= 2
    /\ cur(last_step.cur) = 1
    /\ Len(last_step.passes) = 5
    /\ last_step.passes[1].workgroups = <<dispatch_x, dispatch_y, 1>>
    /\ last_step.passes[4].workgroups = <<dispatch_linear, 1, 1>>
    /\ dispatch_x # dispatch_y /\ dispatch_y # dispatch_linear
    /\ dispatch_x # dispatch_linear

====
